---- MODULE Spec2Model ----
(***************************************************************************)
(* A model of the acquisition pipeline of dtek-monitor-bot.                *)
(*                                                                         *)
(* Part 2 (further down): the result cache, ScheduleCache of src/cache.py  *)
(* and PersistentScheduleCache of src/persistent_cache.py.  Part 3: the    *)
(* request handler process_schedule_request of src/bot.py, which ties the  *)
(* two together, and the JSON file through which a job hands its result   *)
(* to the handler.  Part 4: the interval extractor extract_off_intervals   *)
(* of src/bot.py.  Part 5: the grid parser parse_file of src/main.py.      *)
(* Each part has its own specification; the variables of the other parts   *)
(* keep their initial values in it.                                        *)
(*                                                                         *)
(* Part 1: ParserService (src/parser_service.py): the job table, the FIFO  *)
(* queue, the callback table, the pool of asyncio workers, the retrying    *)
(* executor _parse_with_retry and the thread that runs _run_automation.    *)
(*                                                                         *)
(* Granularity.  asyncio schedules cooperatively, so everything a          *)
(* coroutine does between two awaits that actually suspend is one atomic   *)
(* action.  asyncio.Queue.put on an unbounded queue and Queue.get on a     *)
(* non-empty queue do not suspend; asyncio.to_thread, asyncio.sleep and    *)
(* the completion callback do.  The function handed to to_thread runs in   *)
(* a real thread, concurrently with the event loop, and is not stopped by  *)
(* the cancellation of the worker that awaits it.  Its writes (task.error)  *)
(* are read by no coroutine before the awaiting worker resumes, so the end *)
(* of the thread and the resumption of that worker are one action; the end *)
(* of a thread whose worker was cancelled is an action of its own.         *)
(*                                                                         *)
(* Abstractions.  Task identifiers (uuid4, truncated) are taken to be      *)
(* fresh: the n-th submitted job has identifier n.  The address fields,    *)
(* the progress label and the two timestamps of a ParsingTask do not       *)
(* influence control flow and are left out.  A result is represented by    *)
(* the number of the attempt that returned it, an error description by the *)
(* number of the attempt whose exception it describes; None is 0.          *)
(***************************************************************************)
EXTENDS Integers, Sequences, FiniteSets, TLC

\* ------------------------------------------------------------------ bounds
MaxJobs == 3        \* jobs submitted in one behaviour
MaxFaults == 3      \* failing attempts and raising callbacks in one behaviour
NumWorkers == 2     \* ParserService(max_workers)

\* ------------------------------------------------------- program constants
max_attempts == 3
None == 0

Workers == 1..NumWorkers

VARIABLES
  tasks,      \* ParserService.tasks: sequence, index = task_id
  queue,      \* ParserService.queue: sequence of task_ids, head first
  callbacks,  \* ParserService.callbacks: the set of its keys
  wk,         \* ParserService.workers: per worker, where its coroutine is suspended
              \*   pc: "unborn", "get", "thread", "sleep", "callback", "done"
              \*   tid, attempt: the job and the attempt it is working on
              \*   th: "run" while a thread runs _run_automation for it
  svc,        \* "new", "started" (start() ran), "stopping" (stop() awaits gather), "stopped"
  faults,     \* number of failures injected so far (bounded by MaxFaults)
  obs         \* per job, what an observer of the collaborators has seen

VARIABLES
  kind,       \* which cache class is in use: "memory" (ScheduleCache) or
              \*   "persistent" (PersistentScheduleCache)
  cache,      \* .cache: the dict, as the sequence of its entries in insertion order
  hits,       \* PersistentScheduleCache.hits
  misses,     \* PersistentScheduleCache.misses
  disk,       \* the cache file: its state and, when intact, what was pickled
  now,        \* datetime.now(), in units of the clock
  op          \* the last operation on the cache and what it returned

VARIABLES
  req         \* per call of process_schedule_request, where it is suspended

VARIABLES
  arg,        \* the argument of the function under study (a schedule, a document)
  res         \* what the call returned, or that it raised

VARIABLES
  json,       \* today_schedule.json (config.JSON_PATH): what the file holds
  made        \* per job, the schedule its own fetch and parse produced

svcvars == <<tasks, queue, callbacks, wk, svc, faults, obs>>
cachevars == <<kind, cache, hits, misses, disk, now, op>>
botvars == <<req>>
fnvars == <<arg, res>>
filevars == <<json, made>>
vars == <<svcvars, cachevars, botvars, fnvars, filevars>>

\* ------------------------------------------------------------- the records
\* ParsingTask as submit_task builds it.
\* Mutant: the job is created RUNNING.
NewTaskRunning == [status |-> "running", result |-> None, error |-> None]
NewTask == [status |-> "pending", result |-> None, error |-> None]

\* What has been observed about one job: whether it was submitted with a
\* callback, how often that callback was invoked and with which status, the
\* status its worker left it with, the
\* number of times it was dequeued, the number of attempts started, the outcome
\* of every attempt that returned, and the backoff delays slept.
NewObs(cb) ==
  [hasCb |-> cb, cbCalls |-> 0, cbSeen |-> "none", dequeues |-> 0,
   final |-> "none", starts |-> 0, outcomes |-> <<>>, delays |-> <<>>]

\* A worker suspended in `await self.queue.get()` (or not yet run at all).
IdleWorker ==
  [pc |-> "get", tid |-> 0, attempt |-> 0, th |-> "none"]

\* A worker whose coroutine has left the while loop.
DoneWorker ==
  [pc |-> "done", tid |-> 0, attempt |-> 0, th |-> "none"]

\* What automation.run() can do: return a truthy value, return a falsy value,
\* or raise.
AutomationRun == {"true", "false", "raise"}

\* What awaiting asyncio.to_thread(self._run_automation, ...) can do: one of
\* the above inside the thread, or an exception that reaches _parse_with_retry.
ToThreadOutcomes == AutomationRun \cup {"exc"}

Terminal(s) == s \in {"completed", "failed"}

\* get_task_status: self.tasks.get(task_id)
NoTask == [status |-> "absent", result |-> None, error |-> None]
get_task_status(id) == IF id \in 1..Len(tasks) THEN tasks[id] ELSE NoTask

\* The jobs of self.tasks with status s.
WithStatus(s) == {j \in 1..Len(tasks) : tasks[j].status = s}

\* get_queue_size: self.queue.qsize()
get_queue_size == Len(queue)

\* get_active_tasks_count: the jobs that are RUNNING.
get_active_tasks_count == Cardinality(WithStatus("running"))

\* get_stats
get_stats ==
  [queue_size |-> get_queue_size,
   active_tasks |-> get_active_tasks_count,
   total_tasks |-> Len(tasks),
   workers |-> NumWorkers,
   completed |-> Cardinality(WithStatus("completed")),
   failed |-> Cardinality(WithStatus("failed"))]

\* ------------------------------------------------------------------- queue
\* Mutant: a LIFO queue.
QueuePutFront(q, id) == <<id>> \o q
QueuePut(q, id) == Append(q, id)
QueueHead(q) == Head(q)
\* Mutant: get returns the head without removing it.
QueueGetKeeps(q) == q
QueueGet(q) == Tail(q)

\* ----------------------------------------------- the state as one record
Cur == [tasks |-> tasks, queue |-> queue, callbacks |-> callbacks, wk |-> wk, obs |-> obs]

Commit(S) ==
  /\ tasks' = S.tasks
  /\ queue' = S.queue
  /\ callbacks' = S.callbacks
  /\ wk' = S.wk
  /\ obs' = S.obs

\* ------------------------------------------------------- _parse_with_retry
\* Exponential backoff of _parse_with_retry.
Backoff(attempt) == 2 ^ attempt

\* One pass of the for loop up to `await asyncio.to_thread(...)`.
StartAttempt(S, w, j, k) ==
  [S EXCEPT !.wk[w] = [pc |-> "thread", tid |-> j, attempt |-> k, th |-> "run"],
            !.obs[j].starts = @ + 1]

\* Mutant: a job whose attempts all failed is put back to PENDING.
FinalStatusRequeue(success) == IF success THEN "completed" ELSE "pending"
\* The status the worker gives a job once _parse_with_retry has returned.
FinalStatus(success) == IF success THEN "completed" ELSE "failed"

\* Mutant: the job taken from the queue stays PENDING.
TakeJobKeepsPending(S, w) ==
  LET j == QueueHead(S.queue) IN
  StartAttempt([S EXCEPT !.queue = QueueGet(@),
                         !.obs[j].dequeues = @ + 1], w, j, 1)
\* The worker after `task_id = await self.queue.get()` returned: RUNNING, then
\* the first attempt.
TakeJob(S, w) ==
  LET j == QueueHead(S.queue) IN
  StartAttempt([S EXCEPT !.queue = QueueGet(@),
                         !.tasks[j].status = "running",
                         !.obs[j].dequeues = @ + 1], w, j, 1)

\* Mutant: no while loop, the worker returns after its first job.
LoopTopOnce(S, w) == [S EXCEPT !.wk[w] = DoneWorker]
\* The top of the while loop: Queue.get returns at once when the queue holds
\* an item and suspends otherwise.
LoopTop(S, w) ==
  IF S.queue # <<>> THEN TakeJob(S, w) ELSE [S EXCEPT !.wk[w] = IdleWorker]

\* Mutant: the callback is invoked before the final status is written.
CompleteCallbackFirst(S, w, success) ==
  LET j == S.wk[w].tid IN
  IF j \in S.callbacks
    THEN [S EXCEPT !.wk[w].pc = "callback",
                   !.wk[w].th = "none",
                   !.obs[j].cbCalls = @ + 1,
                   !.obs[j].cbSeen = S.tasks[j].status,
                   !.obs[j].final = FinalStatus(success),
                   !.tasks[j].status = FinalStatus(success)]
    ELSE LoopTop([S EXCEPT !.tasks[j].status = FinalStatus(success),
                           !.obs[j].final = FinalStatus(success)], w)
\* The worker from the return of _parse_with_retry to its next suspension:
\* final status, then the callback if one is registered, else task_done and
\* the top of the loop.
Complete(S, w, success) ==
  LET j == S.wk[w].tid
      S1 == [S EXCEPT !.tasks[j].status = FinalStatus(success),
                      !.obs[j].final = FinalStatus(success)]
  IN IF j \in S1.callbacks
       THEN [S1 EXCEPT !.wk[w].pc = "callback",
                       !.wk[w].th = "none",
                       !.obs[j].cbCalls = @ + 1,
                       !.obs[j].cbSeen = S1.tasks[j].status]
       ELSE LoopTop(S1, w)

\* What _run_automation returns to to_thread when automation.run() did `o`:
\* the truthy value of the attempt, or False (None here), also after it caught
\* an exception.
RunReturns(o, k) == IF o = "true" THEN k ELSE None

\* _run_automation in the thread of worker w, automation.run() doing `o`: an
\* exception of run() is caught and its text stored in task.error.
run_automation(S, w, o) ==
  IF o = "raise" THEN [S EXCEPT !.tasks[S.wk[w].tid].error = S.wk[w].attempt] ELSE S

\* Mutant: range(1, max_attempts + 2).
HasNextOffByOne(k) == k <= max_attempts
\* Whether the for loop of _parse_with_retry has an attempt after attempt k.
HasNext(k) == k < max_attempts

\* Whether _parse_with_retry sleeps after attempt k ended with outcome `o`.
SleepsAfter(o, k) == o = "exc" /\ k < max_attempts

\* Mutant: no `return True`, a truthy result is stored and the loop goes on.
parse_with_retry_no_return(S, w, o) ==
  LET me == S.wk[w]
      j == me.tid
      k == me.attempt
      S0 == [S EXCEPT !.obs[j].outcomes = Append(@, o),
                      !.tasks[j].result = IF o = "exc" THEN @ ELSE RunReturns(o, k)]
  IN IF o # "exc"
       THEN IF HasNext(k)
              THEN StartAttempt(S0, w, j, k + 1)
              ELSE Complete(S0, w, RunReturns(o, k) # None)
       ELSE LET S1 == [S0 EXCEPT !.tasks[j].error = k] IN
            IF SleepsAfter(o, k)
              THEN [S1 EXCEPT !.wk[w].pc = "sleep",
                              !.wk[w].th = "none",
                              !.obs[j].delays = Append(@, Backoff(k))]
              ELSE IF HasNext(k)
                     THEN StartAttempt(S1, w, j, k + 1)
                     ELSE Complete(S1, w, FALSE)
\* _parse_with_retry resumed by the end of to_thread with outcome `o`.
parse_with_retry(S, w, o) ==
  LET me == S.wk[w]
      j == me.tid
      k == me.attempt
      S0 == [S EXCEPT !.obs[j].outcomes = Append(@, o)]
  IN IF o # "exc"
       THEN IF RunReturns(o, k) # None
              THEN Complete([S0 EXCEPT !.tasks[j].result = RunReturns(o, k)], w, TRUE)
              ELSE IF HasNext(k)
                     THEN StartAttempt(S0, w, j, k + 1)
                     ELSE Complete(S0, w, FALSE)
       ELSE LET S1 == [S0 EXCEPT !.tasks[j].error = k] IN
            IF SleepsAfter(o, k)
              THEN [S1 EXCEPT !.wk[w].pc = "sleep",
                              !.wk[w].th = "none",
                              !.obs[j].delays = Append(@, Backoff(k))]
              ELSE IF HasNext(k)
                     THEN StartAttempt(S1, w, j, k + 1)
                     ELSE Complete(S1, w, FALSE)

\* ------------------------------------------------- the other parts at rest
\* The request of an operation that has none.
NoRequest ==
  [city |-> <<>>, street |-> <<>>, house |-> <<>>, url |-> <<>>, next_day |-> FALSE]

\* The record of one operation on the cache: its name ("init", "get", "set",
\* "clear", "stats", "tick", "damage"), the request and the schedule it was
\* called with, what it returned, whether it raised, and what the write of the
\* file did.  Observations of the state it found:
\*   was:     the key was "absent", "expired" or "live" (get, set)
\*   full:    after the sweep the dict held max_size entries or more (set)
\*   follows: the operation before it was a set with the same key (get)
\*   hot:     the entry evicted was accessed later than one that stayed (set)
Op(name, rq, schedule, ret, raised, write) ==
  [name |-> name, rq |-> rq, schedule |-> schedule, ret |-> ret,
   raised |-> raised, write |-> write,
   was |-> "none", full |-> FALSE, follows |-> FALSE, hot |-> FALSE]

\* The cache object has been constructed, nothing else.
NoOp == Op("init", NoRequest, None, None, FALSE, "none")

\* An empty ScheduleCache that nobody uses.
CacheAtRest ==
  /\ kind = "memory"
  /\ cache = <<>>
  /\ hits = 0
  /\ misses = 0
  /\ disk = [state |-> "missing", cache |-> <<>>, hits |-> 0, misses |-> 0]
  /\ now = 0
  /\ op = NoOp

\* No call of process_schedule_request.
BotAtRest == req = <<>>

\* No function has been called: no argument, no result.
NoResult == [state |-> "none", value |-> <<>>]
FnAtRest ==
  /\ arg = <<>>
  /\ res = NoResult

\* The JSON file does not exist and no job has produced anything.
FileAtRest ==
  /\ json = None
  /\ made = [j \in 1..MaxJobs |-> None]

\* A step of one part leaves the other parts alone.
CacheRests == UNCHANGED cachevars
BotRests == UNCHANGED botvars
ServiceRests == UNCHANGED svcvars
FnRests == UNCHANGED fnvars
FileRests == UNCHANGED filevars

\* ----------------------------------------------------------------- actions
\* ParserService() as constructed at import.
ServiceInit ==
  /\ tasks = <<>>
  /\ queue = <<>>
  /\ callbacks = {}
  /\ wk = [w \in Workers |-> [IdleWorker EXCEPT !.pc = "unborn"]]
  /\ svc = "new"
  /\ faults = 0
  /\ obs = <<>>

Init == ServiceInit /\ CacheAtRest /\ BotAtRest /\ FnAtRest /\ FileAtRest
  /\ FnAtRest
  /\ FileAtRest

\* submit_task(..., callback)
submit_task(cb) ==
  /\ Len(tasks) < MaxJobs
  /\ LET id == Len(tasks) + 1 IN
       /\ tasks' = Append(tasks, NewTask)
       /\ callbacks' = IF cb THEN callbacks \cup {id} ELSE callbacks
       /\ queue' = QueuePut(queue, id)
       /\ obs' = Append(obs, NewObs(cb))
  /\ UNCHANGED <<wk, svc, faults>>

\* start()
start ==
  /\ svc = "new"
  /\ svc' = "started"
  /\ wk' = [w \in Workers |-> IdleWorker]
  /\ UNCHANGED <<tasks, queue, callbacks, faults, obs>>

\* Mutant: only the workers waiting for a job are cancelled.
CancelledIfIdle(me) ==
  IF me.pc = "get" THEN DoneWorker ELSE me
\* A worker after the CancelledError raised at its await made it break out of
\* the loop.  The thread of a cancelled to_thread keeps running.
Cancelled(me) ==
  IF me.pc = "thread" THEN [me EXCEPT !.pc = "done"] ELSE DoneWorker

\* Mutant: stop() puts the jobs that are RUNNING back to PENDING.
stop_rolls_back ==
  /\ svc = "started"
  /\ svc' = "stopping"
  /\ wk' = [w \in Workers |-> Cancelled(wk[w])]
  /\ tasks' = [j \in 1..Len(tasks) |->
                 IF tasks[j].status = "running"
                   THEN [tasks[j] EXCEPT !.status = "pending"]
                   ELSE tasks[j]]
  /\ UNCHANGED <<queue, callbacks, faults, obs>>
\* stop() up to `await asyncio.gather(...)`: every worker is cancelled.  The
\* event loop then resumes the workers one after the other, each with a
\* CancelledError; none of them touches the service's state on its way out.
stop ==
  /\ svc = "started"
  /\ svc' = "stopping"
  /\ wk' = [w \in Workers |-> Cancelled(wk[w])]
  /\ UNCHANGED <<tasks, queue, callbacks, faults, obs>>

\* stop() returns: gather has collected every worker.
StopReturn ==
  /\ svc = "stopping"
  /\ \A w \in Workers : wk[w].pc = "done"
  /\ svc' = "stopped"
  /\ UNCHANGED <<tasks, queue, callbacks, wk, faults, obs>>

\* A worker waiting in queue.get() is handed an item.
Dequeue(w) ==
  /\ wk[w].pc = "get"
  /\ queue # <<>>
  /\ Commit(TakeJob(Cur, w))
  /\ UNCHANGED <<svc, faults>>

\* The thread of worker w's current attempt ends with outcome `o` and the
\* worker resumes from `await asyncio.to_thread(...)`.
AttemptEnd(w, o) ==
  /\ wk[w].pc = "thread"
  /\ o # "true" => faults < MaxFaults
  /\ faults' = IF o = "true" THEN faults ELSE faults + 1
  /\ Commit(parse_with_retry(run_automation(Cur, w, o), w, o))
  /\ UNCHANGED svc

\* The thread of a cancelled worker ends: nobody awaits its result.
OrphanThreadEnd(w, o) ==
  /\ wk[w].pc = "done"
  /\ wk[w].th = "run"
  /\ Commit([run_automation(Cur, w, o) EXCEPT !.wk[w] = DoneWorker])
  /\ UNCHANGED <<svc, faults>>

\* asyncio.sleep(2 ** attempt) is over: the next attempt.
SleepDone(w) ==
  /\ wk[w].pc = "sleep"
  /\ Commit(IF HasNext(wk[w].attempt)
              THEN StartAttempt(Cur, w, wk[w].tid, wk[w].attempt + 1)
              ELSE Complete(Cur, w, FALSE))
  /\ UNCHANGED <<svc, faults>>

\* `await callback(task)` returns: del self.callbacks[task_id], task_done().
CallbackReturn(w) ==
  /\ wk[w].pc = "callback"
  /\ Commit(LoopTop([Cur EXCEPT !.callbacks = @ \ {wk[w].tid}], w))
  /\ UNCHANGED <<svc, faults>>

\* Mutant: no `except Exception`, the exception ends the worker.
AfterCallbackErrorEnds(S, w) == [S EXCEPT !.wk[w] = DoneWorker]
\* The worker after an exception of the callback reached `except Exception`.
AfterCallbackError(S, w) == LoopTop(S, w)

\* `await callback(task)` raises an Exception.
CallbackRaise(w) ==
  /\ wk[w].pc = "callback"
  /\ faults < MaxFaults
  /\ faults' = faults + 1
  /\ Commit(AfterCallbackError(Cur, w))
  /\ UNCHANGED svc

Next ==
  \/ \E cb \in BOOLEAN : submit_task(cb) /\ CacheRests /\ BotRests /\ FnRests /\ FileRests
  \/ start /\ CacheRests /\ BotRests /\ FnRests /\ FileRests
  \/ stop /\ CacheRests /\ BotRests /\ FnRests /\ FileRests
  \/ StopReturn /\ CacheRests /\ BotRests /\ FnRests /\ FileRests
  \/ \E w \in Workers : Dequeue(w) /\ CacheRests /\ BotRests /\ FnRests /\ FileRests
  \/ \E w \in Workers : \E o \in ToThreadOutcomes :
       AttemptEnd(w, o) /\ CacheRests /\ BotRests /\ FnRests /\ FileRests
  \/ \E w \in Workers : \E o \in AutomationRun :
       OrphanThreadEnd(w, o) /\ CacheRests /\ BotRests /\ FnRests /\ FileRests
  \/ \E w \in Workers : SleepDone(w) /\ CacheRests /\ BotRests /\ FnRests /\ FileRests
  \/ \E w \in Workers : CallbackReturn(w) /\ CacheRests /\ BotRests /\ FnRests /\ FileRests
  \/ \E w \in Workers : CallbackRaise(w) /\ CacheRests /\ BotRests /\ FnRests /\ FileRests

Spec == Init /\ [][Next]_vars

\* ------------------------------------------------ the service never stopped
\* The steps of worker w and of its thread.
WorkerStep(w) ==
  \/ Dequeue(w)
  \/ \E o \in ToThreadOutcomes : AttemptEnd(w, o)
  \/ SleepDone(w)
  \/ CallbackReturn(w)
  \/ CallbackRaise(w)

NextLive ==
  \/ \E cb \in BOOLEAN : submit_task(cb) /\ CacheRests /\ BotRests /\ FnRests /\ FileRests
  \/ start /\ CacheRests /\ BotRests /\ FnRests /\ FileRests
  \/ \E w \in Workers : WorkerStep(w) /\ CacheRests /\ BotRests /\ FnRests /\ FileRests

\* stop() is never called; the event loop runs every worker that can run, and
\* every fetch, sleep and callback comes to an end.
SpecLive ==
  /\ Init
  /\ [][NextLive]_vars
  /\ \A w \in Workers : WF_vars(WorkerStep(w) /\ CacheRests /\ BotRests /\ FnRests /\ FileRests)

\* ==================================================== Part 2: result cache
(***************************************************************************)
(* ScheduleCache (src/cache.py) and PersistentScheduleCache                *)
(* (src/persistent_cache.py).  _make_key, _is_expired, _cleanup_expired    *)
(* and _evict_if_needed are the same code in both classes.                 *)
(*                                                                         *)
(* A text is the sequence of its characters.  hashlib.md5 is taken to be   *)
(* free of collisions: a key is the text that is hashed.  A dict keeps its *)
(* entries in insertion order, and min() returns the first minimal key in  *)
(* that order, so the dict is a sequence of entries.  A schedule is a      *)
(* token: 1 is the empty list, larger numbers are non-empty lists.  Every  *)
(* datetime.now() of one call reads the same value of the clock.  The      *)
(* city, street, house and next_day fields of a persistent entry and the   *)
(* saved_at field of the pickled data are for reporting only and are left  *)
(* out.                                                                    *)
(***************************************************************************)
\* ------------------------------------------------------------------ bounds
max_size == 2       \* ScheduleCache(max_size)
ttl == 2            \* ScheduleCache(ttl_minutes), in units of the clock
MaxClock == 3       \* the clock stops here
MaxGets == 2        \* get calls counted by hits and misses between two clear()
NumSchedules == 2   \* schedules 1..NumSchedules

EmptyList == 1
Schedules == 1..NumSchedules

\* The request tuples (city, street, house, url, next_day) in use: the second
\* differs from the first in letter case, the third in surrounding whitespace.
Requests ==
  { [city |-> <<"a">>, street |-> <<"b">>, house |-> <<"1">>, url |-> <<"u">>,
     next_day |-> FALSE],
    [city |-> <<"A">>, street |-> <<"b">>, house |-> <<"1">>, url |-> <<"u">>,
     next_day |-> FALSE],
    [city |-> <<"a", " ">>, street |-> <<"b">>, house |-> <<"1">>, url |-> <<"u">>,
     next_day |-> FALSE] }

\* f"{next_day}"
FormatBool(b) == IF b THEN <<"T", "r", "u", "e">> ELSE <<"F", "a", "l", "s", "e">>

\* hashlib.md5(...).hexdigest(), collision-free.
md5(text) == text

\* _make_key: md5 of f"{city}|{street}|{house}|{url}|{next_day}".
make_key(city, street, house, url, next_day) ==
  md5(city \o <<"|">> \o street \o <<"|">> \o house \o <<"|">> \o url
      \o <<"|">> \o FormatBool(next_day))

KeyOf(rq) == make_key(rq.city, rq.street, rq.house, rq.url, rq.next_day)

\* Mutant: an entry expires when its age reaches the TTL.
is_expired_at_ttl(entry, t) == t - entry.timestamp >= ttl
\* _is_expired at time t.
is_expired(entry, t) == t - entry.timestamp > ttl

\* _cleanup_expired at time t.
cleanup_expired(c, t) == SelectSeq(c, LAMBDA e : ~is_expired(e, t))

\* del self.cache[key] for the i-th entry.
Remove(c, i) == SubSeq(c, 1, i - 1) \o SubSeq(c, i + 1, Len(c))

\* The position of key k in the dict, 0 when it is not there.
IndexOf(c, k) ==
  IF \E i \in 1..Len(c) : c[i].key = k
    THEN CHOOSE i \in 1..Len(c) : c[i].key = k
    ELSE 0

\* Mutant: min over last_accessed (least recently used).
OldestIndexByAccess(c) ==
  CHOOSE i \in 1..Len(c) :
    /\ \A j \in 1..Len(c) : c[i].last_accessed <= c[j].last_accessed
    /\ \A j \in 1..(i - 1) : c[j].last_accessed > c[i].last_accessed
\* min(self.cache.keys(), key=timestamp): the first entry, in dict order, of
\* minimal timestamp.
OldestIndex(c) ==
  CHOOSE i \in 1..Len(c) :
    /\ \A j \in 1..Len(c) : c[i].timestamp <= c[j].timestamp
    /\ \A j \in 1..(i - 1) : c[j].timestamp > c[i].timestamp

\* Mutant: evicts only when the cache is above max_size.
evict_if_above(c) ==
  IF Len(c) > max_size THEN Remove(c, OldestIndex(c)) ELSE c
\* _evict_if_needed
evict_if_needed(c) ==
  IF Len(c) >= max_size THEN Remove(c, OldestIndex(c)) ELSE c

\* Mutant: setdefault, an entry that is there is kept.
PutIfAbsent(c, entry) ==
  IF IndexOf(c, entry.key) # 0 THEN c ELSE Append(c, entry)
\* self.cache[key] = entry: in place when the key is there, else at the end.
Put(c, entry) ==
  IF IndexOf(c, entry.key) # 0
    THEN [c EXCEPT ![IndexOf(c, entry.key)] = entry]
    ELSE Append(c, entry)

\* ScheduleCache.get at time t: what it returns and the dict it leaves.
cache_get(c, rq, t) ==
  LET i == IndexOf(c, KeyOf(rq)) IN
  IF i = 0
    THEN [ret |-> None, cache |-> c]
    ELSE IF is_expired(c[i], t)
           THEN [ret |-> None, cache |-> Remove(c, i)]
           ELSE [ret |-> c[i].schedule, cache |-> c]

\* ScheduleCache.set at time t: the dict it leaves.
cache_set(c, rq, schedule, t) ==
  Put(evict_if_needed(cleanup_expired(c, t)),
      [key |-> KeyOf(rq), schedule |-> schedule, timestamp |-> t,
       last_accessed |-> None])

\* Mutant: a hit also renews the creation timestamp.
persistent_get_renews(P, rq, t) ==
  LET i == IndexOf(P.cache, KeyOf(rq)) IN
  IF i = 0
    THEN [ret |-> None, cache |-> P.cache, hits |-> P.hits, misses |-> P.misses + 1]
    ELSE IF is_expired(P.cache[i], t)
           THEN [ret |-> None, cache |-> Remove(P.cache, i),
                 hits |-> P.hits, misses |-> P.misses + 1]
           ELSE [ret |-> P.cache[i].schedule,
                 cache |-> [P.cache EXCEPT ![i].last_accessed = t,
                                           ![i].timestamp = t],
                 hits |-> P.hits + 1, misses |-> P.misses]
\* PersistentScheduleCache.get at time t on P = [cache, hits, misses].
persistent_get(P, rq, t) ==
  LET i == IndexOf(P.cache, KeyOf(rq)) IN
  IF i = 0
    THEN [ret |-> None, cache |-> P.cache, hits |-> P.hits, misses |-> P.misses + 1]
    ELSE IF is_expired(P.cache[i], t)
           THEN [ret |-> None, cache |-> Remove(P.cache, i),
                 hits |-> P.hits, misses |-> P.misses + 1]
           ELSE [ret |-> P.cache[i].schedule,
                 cache |-> [P.cache EXCEPT ![i].last_accessed = t],
                 hits |-> P.hits + 1, misses |-> P.misses]

\* PersistentScheduleCache.set at time t, up to _save_to_disk: the dict.
persistent_set(c, rq, schedule, t) ==
  Put(evict_if_needed(cleanup_expired(c, t)),
      [key |-> KeyOf(rq), schedule |-> schedule, timestamp |-> t,
       last_accessed |-> t])

\* ---------------------------------------------------------- the cache file
\* The file is missing, cannot be opened, holds no valid pickle ("corrupt"),
\* or holds what _save_to_disk pickled ("ok").
DamagedDisk == {"missing", "unreadable", "corrupt"}
BadFile(s) == [state |-> s, cache |-> <<>>, hits |-> 0, misses |-> 0]

\* What open() and pickle.dump can do in _save_to_disk.
WriteOutcomes == {"ok", "open_fails", "dump_fails"}

\* The exception raised while reading file d, "none" if there is none:
\* open() fails on an unreadable file, pickle.load on a corrupt one.
LoadFailure(d) ==
  IF d.state = "unreadable" THEN "OSError"
  ELSE IF d.state = "corrupt" THEN "UnpicklingError"
  ELSE "none"

\* The exception raised by a write with outcome wr.
WriteFailure(wr) ==
  IF wr = "open_fails" THEN "OSError"
  ELSE IF wr = "dump_fails" THEN "PicklingError"
  ELSE "none"

\* Mutant: `except OSError`.
CaughtOSErrorOnly(exc) == exc = "OSError"
\* `except Exception` in _load_from_disk and _save_to_disk.
Caught(exc) == exc \in {"OSError", "UnpicklingError", "PicklingError"}

\* Mutant: the loaded dict is not swept.
load_from_disk_unswept(d, t) ==
  IF d.state \in DamagedDisk
    THEN [cache |-> <<>>, hits |-> 0, misses |-> 0,
          raised |-> d.state # "missing" /\ ~Caught(LoadFailure(d))]
    ELSE [cache |-> d.cache, hits |-> d.hits,
          misses |-> d.misses, raised |-> FALSE]
\* __init__ and _load_from_disk at time t over file d: the dict and the
\* counters of the new object, and whether the constructor raised.
load_from_disk(d, t) ==
  IF d.state \in DamagedDisk
    THEN [cache |-> <<>>, hits |-> 0, misses |-> 0,
          raised |-> d.state # "missing" /\ ~Caught(LoadFailure(d))]
    ELSE [cache |-> cleanup_expired(d.cache, t), hits |-> d.hits,
          misses |-> d.misses, raised |-> FALSE]

\* _save_to_disk of P = [cache, hits, misses] over file d with outcome wr:
\* open(..., 'wb') truncates the file before pickle.dump writes it.
save_to_disk(P, d, wr) ==
  IF wr = "ok"
    THEN [state |-> "ok", cache |-> P.cache, hits |-> P.hits, misses |-> P.misses]
    ELSE IF wr = "dump_fails" THEN BadFile("corrupt") ELSE d

\* -------------------------------------------------------- cache actions
\* Whether the dict c holds key k, and an expired or a live entry, at time t.
KeyState(c, k, t) ==
  IF IndexOf(c, k) = 0 THEN "absent"
  ELSE IF is_expired(c[IndexOf(c, k)], t) THEN "expired"
  ELSE "live"

\* Whether _evict_if_needed, run on dict c, removes an entry that was accessed
\* later than an entry it leaves.
EvictsHot(c) ==
  /\ Len(c) >= max_size
  /\ \E j \in 1..Len(c) :
       /\ j # OldestIndex(c)
       /\ c[OldestIndex(c)].last_accessed > c[j].last_accessed

\* The cache object as constructed at import over a missing file: empty.
InitCache ==
  /\ ServiceInit
  /\ BotAtRest
  /\ FnAtRest
  /\ FileAtRest
  /\ kind \in {"memory", "persistent"}
  /\ disk = BadFile("missing")
  /\ now = 0
  /\ cache = <<>>
  /\ hits = 0
  /\ misses = 0
  /\ op = NoOp

\* schedule_cache.get(city, street, house, url, next_day)
CacheGet(rq) ==
  /\ kind = "persistent" => hits + misses < MaxGets
  /\ LET g == IF kind = "memory"
                THEN cache_get(cache, rq, now)
                ELSE persistent_get([cache |-> cache, hits |-> hits,
                                     misses |-> misses], rq, now)
     IN /\ cache' = g.cache
        /\ hits' = IF kind = "memory" THEN hits ELSE g.hits
        /\ misses' = IF kind = "memory" THEN misses ELSE g.misses
        /\ op' = [Op("get", rq, None, g.ret, FALSE, "none") EXCEPT
                    !.was = KeyState(cache, KeyOf(rq), now),
                    !.follows = (op.name = "set" /\ KeyOf(op.rq) = KeyOf(rq))]
  /\ UNCHANGED <<kind, disk, now>>

\* schedule_cache.set(city, street, house, url, schedule, next_day); wr is what
\* the write of the file does ("none": ScheduleCache writes no file).
CacheSet(rq, schedule, wr) ==
  /\ wr = "none" <=> kind = "memory"
  /\ cache' = IF kind = "memory"
                THEN cache_set(cache, rq, schedule, now)
                ELSE persistent_set(cache, rq, schedule, now)
  /\ disk' = IF kind = "memory"
               THEN disk
               ELSE save_to_disk([cache |-> cache', hits |-> hits,
                                  misses |-> misses], disk, wr)
  /\ op' = [Op("set", rq, schedule, None,
               wr \notin {"none", "ok"} /\ ~Caught(WriteFailure(wr)), wr) EXCEPT
              !.was = KeyState(cache, KeyOf(rq), now),
              !.full = (Len(cleanup_expired(cache, now)) >= max_size),
              !.hot = EvictsHot(cleanup_expired(cache, now))]
  /\ UNCHANGED <<kind, hits, misses, now>>

\* schedule_cache.clear()
CacheClear(wr) ==
  /\ wr = "none" <=> kind = "memory"
  /\ cache' = <<>>
  /\ hits' = IF kind = "memory" THEN hits ELSE 0
  /\ misses' = IF kind = "memory" THEN misses ELSE 0
  /\ disk' = IF kind = "memory"
               THEN disk
               ELSE save_to_disk([cache |-> <<>>, hits |-> 0, misses |-> 0], disk, wr)
  /\ op' = Op("clear", NoRequest, None, None,
              wr \notin {"none", "ok"} /\ ~Caught(WriteFailure(wr)), wr)
  /\ UNCHANGED <<kind, now>>

\* schedule_cache.get_stats(): sweeps, then reports the size.
CacheStats ==
  /\ cache' = cleanup_expired(cache, now)
  /\ op' = Op("stats", NoRequest, None, Len(cleanup_expired(cache, now)), FALSE, "none")
  /\ UNCHANGED <<kind, hits, misses, disk, now>>

\* Time passes.
Tick ==
  /\ now < MaxClock
  /\ now' = now + 1
  /\ op' = Op("tick", NoRequest, None, None, FALSE, "none")
  /\ UNCHANGED <<kind, cache, hits, misses, disk>>

\* The process is started again: a new cache object is constructed.
Construct ==
  /\ LET l == IF kind = "memory"
                THEN [cache |-> <<>>, hits |-> 0, misses |-> 0, raised |-> FALSE]
                ELSE load_from_disk(disk, now)
     IN /\ cache' = l.cache
        /\ hits' = l.hits
        /\ misses' = l.misses
        /\ op' = Op("init", NoRequest, None, None, l.raised, "none")
  /\ UNCHANGED <<kind, disk, now>>

\* The file is removed, made unreadable or overwritten with garbage from
\* outside.
DiskDamage(s) ==
  /\ kind = "persistent"
  /\ disk.state # s
  /\ disk' = BadFile(s)
  /\ op' = Op("damage", NoRequest, None, None, FALSE, "none")
  /\ UNCHANGED <<kind, cache, hits, misses, now>>

\* Either class in use; the directory of the cache file is not writable, so
\* PersistentScheduleCache works in memory only.
NextCache ==
  \/ \E rq \in Requests : CacheGet(rq) /\ ServiceRests /\ BotRests /\ FnRests /\ FileRests
  \/ \E rq \in Requests : \E s \in Schedules : \E wr \in {"none", "open_fails"} :
       CacheSet(rq, s, wr) /\ ServiceRests /\ BotRests /\ FnRests /\ FileRests
  \/ \E wr \in {"none", "open_fails"} : CacheClear(wr) /\ ServiceRests /\ BotRests /\ FnRests /\ FileRests
  \/ CacheStats /\ ServiceRests /\ BotRests /\ FnRests /\ FileRests
  \/ Tick /\ ServiceRests /\ BotRests /\ FnRests /\ FileRests

SpecCache == InitCache /\ [][NextCache]_vars

\* ------------------------------------------- the persistent cache and its file
\* The requests and schedules used with the file.
StoreRequests == {rq \in Requests : rq.city \in {<<"a">>, <<"A">>}}
StoreSchedules == {NumSchedules}

\* PersistentScheduleCache() as constructed at import, over a file that is
\* missing (first start) or damaged.
InitStore ==
  /\ ServiceInit
  /\ BotAtRest
  /\ FnAtRest
  /\ FileAtRest
  /\ kind = "persistent"
  /\ disk \in {BadFile(s) : s \in DamagedDisk}
  /\ now = 0
  /\ cache = <<>>
  /\ hits = 0
  /\ misses = 0
  /\ op = Op("init", NoRequest, None, None, load_from_disk(disk, 0).raised, "none")

NextStore ==
  \/ \E rq \in StoreRequests : CacheGet(rq) /\ ServiceRests /\ BotRests /\ FnRests /\ FileRests
  \/ \E rq \in StoreRequests : \E s \in StoreSchedules : \E wr \in WriteOutcomes :
       CacheSet(rq, s, wr) /\ ServiceRests /\ BotRests /\ FnRests /\ FileRests
  \/ \E wr \in WriteOutcomes : CacheClear(wr) /\ ServiceRests /\ BotRests /\ FnRests /\ FileRests
  \/ CacheStats /\ ServiceRests /\ BotRests /\ FnRests /\ FileRests
  \/ Tick /\ ServiceRests /\ BotRests /\ FnRests /\ FileRests
  \/ Construct /\ ServiceRests /\ BotRests /\ FnRests /\ FileRests
  \/ \E s \in DamagedDisk : DiskDamage(s) /\ ServiceRests /\ BotRests /\ FnRests /\ FileRests

SpecStore == InitStore /\ [][NextStore]_vars

\* --------------------------------------------- text fields that hold a "|"
\* Requests whose city or street holds the character _make_key joins the
\* fields with, and one without it.
BarRequests ==
  { [city |-> <<"a", "|">>, street |-> <<"b">>, house |-> <<"1">>, url |-> <<"u">>,
     next_day |-> FALSE],
    [city |-> <<"a">>, street |-> <<"|", "b">>, house |-> <<"1">>, url |-> <<"u">>,
     next_day |-> FALSE],
    [city |-> <<"a">>, street |-> <<"b">>, house |-> <<"1">>, url |-> <<"u">>,
     next_day |-> FALSE] }

\* Either class in use with these requests.
NextKeys ==
  \/ \E rq \in BarRequests : CacheGet(rq) /\ ServiceRests /\ BotRests /\ FnRests /\ FileRests
  \/ \E rq \in BarRequests : \E s \in Schedules : \E wr \in {"none", "ok"} :
       CacheSet(rq, s, wr) /\ ServiceRests /\ BotRests /\ FnRests /\ FileRests
  \/ Tick /\ ServiceRests /\ BotRests /\ FnRests /\ FileRests

SpecKeys == InitCache /\ [][NextKeys]_vars

\* ============================================= Part 3: the request handler
(***************************************************************************)
(* process_schedule_request of src/bot.py over the ParserService of Part 1 *)
(* and the ScheduleCache of src/cache.py.  The handler looks the request   *)
(* up in the cache; on a hit it answers and returns; on a miss it sends a  *)
(* progress message (a suspension), then submits a job whose callback      *)
(* on_parsing_complete stores the schedule read from the JSON file in the  *)
(* cache.  The callback runs up to its first await in the same stretch in  *)
(* which the worker writes the final status, so the final status and the   *)
(* cache set are one action.  The callback catches every Exception.        *)
(* Sending messages is taken to succeed; update_parsing_progress and       *)
(* active_parsings only report and are left out.                           *)
(***************************************************************************)
MaxRequests == 2    \* calls of process_schedule_request in one behaviour

\* The requests users send.
BotRequests == {rq \in Requests : rq.city \in {<<"a">>, <<"A">>}}

\* What read_schedule() can return: None, or the list found in the JSON file.
ReadSchedule == {None} \cup Schedules

\* `if schedule:`
Truthy(schedule) == schedule \notin {None, EmptyList}

\* Mutant: the cached schedule is ignored, every call goes on to submit.
NewRequestIgnoresCache(rq, cached) ==
  [rq |-> rq, cached |-> cached, task_id |-> None, seen |-> "none",
   pc |-> "progress"]
\* Mutant: a call joins a call for the same key that is still under way
\* instead of going on to submit.
NewRequestJoins(rq, cached) ==
  [rq |-> rq, cached |-> cached, task_id |-> None, seen |-> "none",
   pc |-> IF \/ cached # None
             \/ \E r \in 1..Len(req) :
                  /\ KeyOf(req[r].rq) = KeyOf(rq)
                  /\ \/ req[r].pc = "progress"
                     \/ /\ req[r].pc = "submitted"
                        /\ ~Terminal(tasks[req[r].task_id].status)
           THEN "answered"
           ELSE "progress"]
\* A call of process_schedule_request right after the cache lookup returned
\* `cached`: done when answered from the cache, else about to send the
\* progress message.  task_id: what submit_task returned to it; seen: what the
\* cache held for its key when it called submit_task.
NewRequest(rq, cached) ==
  [rq |-> rq, cached |-> cached, task_id |-> None, seen |-> "none",
   pc |-> IF cached # None THEN "answered" ELSE "progress"]

\* The call that submitted job j.
RequestOf(j) == CHOOSE r \in 1..Len(req) : req[r].task_id = j

\* main() has started the service; the cache is empty.
InitBot ==
  /\ tasks = <<>>
  /\ queue = <<>>
  /\ callbacks = {}
  /\ wk = [w \in Workers |-> IdleWorker]
  /\ svc = "started"
  /\ faults = 0
  /\ obs = <<>>
  /\ CacheAtRest
  /\ BotAtRest
  /\ FnAtRest
  /\ FileAtRest

\* process_schedule_request(message, city, street, house, url, next_day) up to
\* its first await: the cache lookup.
Request(rq) ==
  /\ Len(req) < MaxRequests
  /\ Len(req) < MaxJobs
  /\ CacheGet(rq)
  /\ req' = Append(req, NewRequest(rq, op'.ret))
  /\ ServiceRests

\* The progress message is sent: submit_task with on_parsing_complete.
Submit(r) ==
  /\ req[r].pc = "progress"
  /\ submit_task(TRUE)
  /\ req' = [req EXCEPT ![r].pc = "submitted",
                         ![r].task_id = Len(tasks'),
                         ![r].seen = KeyState(cache, KeyOf(req[r].rq), now)]
  /\ CacheRests

\* Mutant: on_parsing_complete does not look at task.status.
BotAttemptEndAnyStatus(w, o, schedule) ==
  /\ AttemptEnd(w, o)
  /\ IF Terminal(tasks'[wk[w].tid].status) /\ Truthy(schedule)
       THEN CacheSet(req[RequestOf(wk[w].tid)].rq, schedule, "none")
       ELSE CacheRests
  /\ BotRests
\* The worker resumes from to_thread; when the job is COMPLETED by it,
\* on_parsing_complete reads the JSON file (`schedule`) and stores a truthy
\* schedule in the cache.
BotAttemptEnd(w, o, schedule) ==
  /\ AttemptEnd(w, o)
  /\ o # "true" => schedule = None
  /\ IF o = "true" /\ Truthy(schedule)
       THEN CacheSet(req[RequestOf(wk[w].tid)].rq, schedule, "none")
       ELSE CacheRests
  /\ BotRests

NextBot ==
  \/ \E rq \in BotRequests : Request(rq) /\ FnRests /\ FileRests
  \/ \E r \in 1..Len(req) : Submit(r) /\ FnRests /\ FileRests
  \/ \E w \in Workers : Dequeue(w) /\ CacheRests /\ BotRests /\ FnRests /\ FileRests
  \/ \E w \in Workers : \E o \in ToThreadOutcomes : \E s \in ReadSchedule :
       BotAttemptEnd(w, o, s) /\ FnRests /\ FileRests
  \/ \E w \in Workers : SleepDone(w) /\ CacheRests /\ BotRests /\ FnRests /\ FileRests
  \/ \E w \in Workers : CallbackReturn(w) /\ CacheRests /\ BotRests /\ FnRests /\ FileRests
  \/ Tick /\ ServiceRests /\ BotRests /\ FnRests /\ FileRests

SpecBot == InitBot /\ [][NextBot]_vars

(***************************************************************************)
(* The JSON file.  The thread of an attempt ends with main() of            *)
(* src/main.py writing the parsed schedule to today_schedule.json, one     *)
(* file for all jobs; on_parsing_complete reads that file back with        *)
(* read_schedule.  The write happens in a thread (or a child process),     *)
(* concurrently with the event loop and with the threads of other          *)
(* workers; write_text truncates the file before it writes, so a reader    *)
(* can find it half written.  Here every attempt succeeds.                 *)
(***************************************************************************)
\* The file while a write_text is under way: not valid JSON.
Torn == -1

\* schedule = parse_file(path) for the page of job j: the schedules of
\* different jobs differ, and none is empty.
OutputOf(j) == EmptyList + j

\* read_schedule(): None when the file does not exist or does not decode.
read_schedule(file) == IF file \in {None, Torn} THEN None ELSE file

\* The thread of worker w opens the file for writing.
WriteBegin(w) ==
  /\ wk[w].pc = "thread"
  /\ made[wk[w].tid] = None
  /\ json' = Torn
  /\ made' = [made EXCEPT ![wk[w].tid] = Torn]

\* The thread of worker w has written its schedule.
WriteEnd(w) ==
  /\ wk[w].pc = "thread"
  /\ made[wk[w].tid] = Torn
  /\ json' = OutputOf(wk[w].tid)
  /\ made' = [made EXCEPT ![wk[w].tid] = OutputOf(wk[w].tid)]

\* `schedule = read_schedule()` in the callback of job j.
callback_schedule(j) == read_schedule(json)

\* automation.run() has returned a truthy value after writing the file; the
\* worker resumes, the job is COMPLETED and on_parsing_complete stores what
\* it reads from the file.
FileAttemptEnd(w) ==
  /\ wk[w].pc = "thread"
  /\ made[wk[w].tid] \notin {None, Torn}
  /\ AttemptEnd(w, "true")
  /\ IF Truthy(callback_schedule(wk[w].tid))
       THEN CacheSet(req[RequestOf(wk[w].tid)].rq, callback_schedule(wk[w].tid), "none")
       ELSE CacheRests
  /\ BotRests

NextFile ==
  \/ \E rq \in BotRequests : Request(rq) /\ FnRests /\ FileRests
  \/ \E r \in 1..Len(req) : Submit(r) /\ FnRests /\ FileRests
  \/ \E w \in Workers : Dequeue(w) /\ CacheRests /\ BotRests /\ FnRests /\ FileRests
  \/ \E w \in Workers : WriteBegin(w) /\ ServiceRests /\ CacheRests /\ BotRests /\ FnRests
  \/ \E w \in Workers : WriteEnd(w) /\ ServiceRests /\ CacheRests /\ BotRests /\ FnRests
  \/ \E w \in Workers : FileAttemptEnd(w) /\ FnRests /\ FileRests
  \/ \E w \in Workers : CallbackReturn(w) /\ CacheRests /\ BotRests /\ FnRests /\ FileRests
  \/ Tick /\ ServiceRests /\ BotRests /\ FnRests /\ FileRests

SpecFile == InitBot /\ [][NextFile]_vars

(***************************************************************************)
(* Part 4: the interval extractor extract_off_intervals of src/bot.py.     *)
(* A text is the sequence of its characters.  A schedule is the list that  *)
(* parse_file of src/main.py produces and read_schedule loads: a sequence  *)
(* of slots {"interval": "HH:MM-HH:MM", "status": ...}.  The function is   *)
(* pure; its specification draws the schedule in the initial state and     *)
(* calls the function once.                                                *)
(***************************************************************************)
MaxSlots == 4       \* slots in a schedule handed to extract_off_intervals

\* str(n) for a digit, and for a natural number.
Digit(n) == <<"0", "1", "2", "3", "4", "5", "6", "7", "8", "9">>[n + 1]
RECURSIVE Decimal(_)
Decimal(n) == IF n < 10 THEN <<Digit(n)>> ELSE Decimal(n \div 10) \o <<Digit(n % 10)>>

\* f"{hh:02d}" for hh >= 0: at least two digits, zero-padded.
Fmt02(hh) == IF hh < 10 THEN <<"0">> \o Decimal(hh) ELSE Decimal(hh)

\* half1 = f"{hh:02d}:00-{hh:02d}:30"
half1(hh) ==
  Fmt02(hh) \o <<":", "0", "0", "-">> \o Fmt02(hh) \o <<":", "3", "0">>

\* next_h = (hh + 1) % 24; half2 = f"{hh:02d}:30-{next_h:02d}:00"
half2(hh) ==
  Fmt02(hh) \o <<":", "3", "0", "-">> \o Fmt02((hh + 1) % 24) \o <<":", "0", "0">>

\* The positions of the separator in a text.
SepAt(text, sep) == {i \in 1..Len(text) : text[i] = sep}

\* text.split(sep) for a one-character separator.
RECURSIVE Split(_, _)
Split(text, sep) ==
  IF SepAt(text, sep) = {}
    THEN <<text>>
    ELSE LET i == CHOOSE x \in SepAt(text, sep) : \A y \in SepAt(text, sep) : x <= y
         IN <<SubSeq(text, 1, i - 1)>> \o Split(SubSeq(text, i + 1, Len(text)), sep)

\* The statuses parse_file writes.
Statuses == {"on", "off", "unknown"}

\* The slot of the k-th half hour of the day (k = 1 is 00:00-00:30).
Slot(k, status) ==
  [interval |-> IF k % 2 = 1 THEN half1((k - 1) \div 2) ELSE half2((k - 1) \div 2),
   status |-> status]

\* The 48 half hours of a day, all with one status.
FullDay(status) == [k \in 1..48 |-> Slot(k, status)]

\* The schedules handed to extract_off_intervals: the first n half hours of
\* a day, each with any status, and the whole days of one status.
SlotLists ==
  UNION {{[k \in 1..n |-> Slot(k, f[k])] : f \in [1..n -> Statuses]} : n \in 0..MaxSlots}
    \cup {FullDay(s) : s \in Statuses}

\* current_start = None: no block is open.  (A label is never empty.)
NoLabel == <<>>

\* The locals of extract_off_intervals before the loop.
ExtractStart ==
  [off_blocks |-> <<>>, current_start |-> NoLabel, prev_end |-> NoLabel, raised |-> FALSE]

\* Mutant: a slot that is not "off" does not close the open block.
ExtractItemKeepsOpen(st, item) ==
  LET parts == Split(item.interval, "-") IN
  IF st.raised \/ Len(parts) # 2
    THEN [st EXCEPT !.raised = TRUE]
    ELSE IF item.status = "off"
           THEN [st EXCEPT !.current_start = IF @ = NoLabel THEN parts[1] ELSE @,
                           !.prev_end = parts[2]]
           ELSE st
\* Mutant: every "off" slot starts the block anew.
ExtractItemRestarts(st, item) ==
  LET parts == Split(item.interval, "-") IN
  IF st.raised \/ Len(parts) # 2
    THEN [st EXCEPT !.raised = TRUE]
    ELSE IF item.status = "off"
           THEN [st EXCEPT !.current_start = parts[1], !.prev_end = parts[2]]
           ELSE IF st.current_start # NoLabel
                  THEN [st EXCEPT !.off_blocks = Append(@, <<st.current_start, st.prev_end>>),
                                  !.current_start = NoLabel]
                  ELSE st
\* Mutant: an "unknown" slot counts as "off".
ExtractItemUnknownOff(st, item) ==
  LET parts == Split(item.interval, "-") IN
  IF st.raised \/ Len(parts) # 2
    THEN [st EXCEPT !.raised = TRUE]
    ELSE IF item.status \in {"off", "unknown"}
           THEN [st EXCEPT !.current_start = IF @ = NoLabel THEN parts[1] ELSE @,
                           !.prev_end = parts[2]]
           ELSE IF st.current_start # NoLabel
                  THEN [st EXCEPT !.off_blocks = Append(@, <<st.current_start, st.prev_end>>),
                                  !.current_start = NoLabel]
                  ELSE st
\* One pass of the loop body: `start, end = item["interval"].split("-")`
\* raises ValueError unless the split gives two parts.
ExtractItem(st, item) ==
  LET parts == Split(item.interval, "-") IN
  IF st.raised \/ Len(parts) # 2
    THEN [st EXCEPT !.raised = TRUE]
    ELSE IF item.status = "off"
           THEN [st EXCEPT !.current_start = IF @ = NoLabel THEN parts[1] ELSE @,
                           !.prev_end = parts[2]]
           ELSE IF st.current_start # NoLabel
                  THEN [st EXCEPT !.off_blocks = Append(@, <<st.current_start, st.prev_end>>),
                                  !.current_start = NoLabel]
                  ELSE st

\* `for item in schedule:` from item i on; a ValueError ends the loop.
RECURSIVE ExtractLoop(_, _, _)
ExtractLoop(schedule, i, st) ==
  IF i > Len(schedule)
    THEN st
    ELSE LET next == ExtractItem(st, schedule[i]) IN
         IF next.raised THEN next ELSE ExtractLoop(schedule, i + 1, next)

\* Mutant: the block still open at the end of the list is dropped.
extract_off_intervals_no_tail(schedule) ==
  LET st == ExtractLoop(schedule, 1, ExtractStart) IN
  IF st.raised
    THEN [state |-> "raised", value |-> <<>>]
    ELSE [state |-> "returned", value |-> st.off_blocks]
\* extract_off_intervals(schedule): the list of (start, end) it returns, or
\* that it raised.
extract_off_intervals(schedule) ==
  LET st == ExtractLoop(schedule, 1, ExtractStart) IN
  IF st.raised
    THEN [state |-> "raised", value |-> <<>>]
    ELSE [state |-> "returned",
          value |-> IF st.current_start # NoLabel
                      THEN Append(st.off_blocks, <<st.current_start, st.prev_end>>)
                      ELSE st.off_blocks]

\* A schedule is at hand, the function has not been called.
InitExtract ==
  /\ ServiceInit
  /\ CacheAtRest
  /\ BotAtRest
  /\ FileAtRest
  /\ arg \in SlotLists
  /\ res = NoResult

\* off_times = extract_off_intervals(schedule)
Extract ==
  /\ res.state = "none"
  /\ res' = extract_off_intervals(arg)
  /\ arg' = arg

NextExtract ==
  \/ Extract /\ ServiceRests /\ CacheRests /\ BotRests /\ FileRests

SpecExtract == InitExtract /\ [][NextExtract]_vars

(***************************************************************************)
(* Part 5: the grid parser parse_file of src/main.py.  BeautifulSoup is    *)
(* taken as given: a document is what the selectors of parse_file find in  *)
(* it: whether there is an outage table, the texts of its                  *)
(* th[scope='col'] headers and of its th div headers, and its body rows,   *)
(* each with its td cells and whether it is marked current-day.  A cell    *)
(* is the set of its class names; a class name and a header text are       *)
(* sequences of characters.                                                *)
(***************************************************************************)
MaxCols == 2        \* hour headers in a document
MaxTds == 4         \* td cells in a row

\* The class names of main.py, lines 17-20.
cell_scheduled == <<"c", "e", "l", "l", "-", "s", "c", "h", "e", "d", "u", "l", "e", "d">>
cell_scheduled_maybe == <<"c", "e", "l", "l", "-", "s", "c", "h", "e", "d", "u", "l", "e", "d", "-", "m", "a", "y", "b", "e">>
cell_scheduled_maybe_sp == <<"c", "e", "l", "l", "-", "s", "c", "h", "e", "d", "u", "l", "e", "d", "-", "m", "a", "y", "b", "e", " ">>
cell_non_scheduled == <<"c", "e", "l", "l", "-", "n", "o", "n", "-", "s", "c", "h", "e", "d", "u", "l", "e", "d">>
OFF_CLASSES == {cell_scheduled, cell_scheduled_maybe, cell_scheduled_maybe_sp}
ON_CLASSES == {cell_non_scheduled}
FIRST_HALF == <<"c", "e", "l", "l", "-", "f", "i", "r", "s", "t", "-", "h", "a", "l", "f">>
SECOND_HALF == <<"c", "e", "l", "l", "-", "s", "e", "c", "o", "n", "d", "-", "h", "a", "l", "f">>

\* The substrings looked for when no class name is recognised.
non_sched == <<"n", "o", "n", "-", "s", "c", "h", "e", "d">>
schedul == <<"s", "c", "h", "e", "d", "u", "l">>

\* `sub in text`
Contains(text, sub) ==
  \E i \in 1..(Len(text) - Len(sub) + 1) : SubSeq(text, i, i + Len(sub) - 1) = sub

\* `sub in " ".join(classes)` for a sub without a space: class names hold no
\* whitespace, so sub lies within one of the joined names.
JoinContains(classes, sub) == \E c \in classes : Contains(c, sub)

\* Mutant: the two half markers are taken for each other.
classify_halves_swapped(classes) ==
  IF classes \cap ON_CLASSES # {} THEN <<"on", "on">>
  ELSE IF classes \cap OFF_CLASSES # {} THEN <<"off", "off">>
  ELSE IF FIRST_HALF \in classes THEN <<"on", "off">>
  ELSE IF SECOND_HALF \in classes THEN <<"off", "on">>
  ELSE IF JoinContains(classes, non_sched) THEN <<"on", "on">>
  ELSE IF JoinContains(classes, schedul) THEN <<"off", "off">>
  ELSE <<"unknown", "unknown">>
\* The if/elif chain of parse_file, lines 86-111: the statuses of the two
\* half hours of a cell with these class names.
classify(classes) ==
  IF classes \cap ON_CLASSES # {} THEN <<"on", "on">>
  ELSE IF classes \cap OFF_CLASSES # {} THEN <<"off", "off">>
  ELSE IF FIRST_HALF \in classes THEN <<"off", "on">>
  ELSE IF SECOND_HALF \in classes THEN <<"on", "off">>
  ELSE IF JoinContains(classes, non_sched) THEN <<"on", "on">>
  ELSE IF JoinContains(classes, schedul) THEN <<"off", "off">>
  ELSE <<"unknown", "unknown">>

\* Class names a cell of the provider's page may carry: the five the parser
\* names, two it does not name that hold one of the substrings, and two it
\* knows nothing about.
Markers ==
  {cell_scheduled, cell_scheduled_maybe, cell_non_scheduled, FIRST_HALF, SECOND_HALF,
   <<"s", "c", "h", "e", "d", "u", "l", "e", "d">>, <<"n", "o", "n", "-", "s", "c", "h", "e", "d", "u", "l", "e", "d">>,
   <<"c", "u", "r", "r", "e", "n", "t", "-", "d", "a", "y">>, <<"a", "c", "t", "i", "v", "e">>}

\* A cell is at hand, it has not been classified.
InitClassify ==
  /\ ServiceInit
  /\ CacheAtRest
  /\ BotAtRest
  /\ FileAtRest
  /\ arg \in SUBSET Markers
  /\ res = NoResult

\* classes = set(cell.get("class") or []) and the chain that follows.
Classify ==
  /\ res.state = "none"
  /\ res' = [state |-> "returned", value |-> classify(arg)]
  /\ arg' = arg

NextClassify ==
  \/ Classify /\ ServiceRests /\ CacheRests /\ BotRests /\ FileRests

SpecClassify == InitClassify /\ [][NextClassify]_vars

\* int(text) for a text of digits; anything else makes int() raise.
IsNumber(text) ==
  /\ Len(text) > 0
  /\ \A i \in 1..Len(text) : \E d \in 0..9 : text[i] = Digit(d)
DigitValue(ch) == CHOOSE d \in 0..9 : Digit(d) = ch
RECURSIVE IntOf(_)
IntOf(text) ==
  IF Len(text) = 1
    THEN DigitValue(text[1])
    ELSE 10 * IntOf(SubSeq(text, 1, Len(text) - 1)) + DigitValue(text[Len(text)])

\* hh of lines 73-76 for the header at index i (from 0):
\* int(header.split("-")[0]) + 1, or i when int() raises.
hour_of(header, i) ==
  LET lead == Split(header, "-")[1] IN
  IF IsNumber(lead) THEN IntOf(lead) + 1 ELSE i

\* The row parse_file works on: the first one marked current-day, else the
\* last one.  (Only for a body with rows.)
selected_row(rows) ==
  IF \E k \in 1..Len(rows) : rows[k].current
    THEN rows[CHOOSE k \in 1..Len(rows) :
                /\ rows[k].current
                /\ \A m \in 1..(k - 1) : ~rows[m].current]
    ELSE rows[Len(rows)]

\* seq[:n]
Prefix(seq, n) == SubSeq(seq, 1, IF n < Len(seq) THEN n ELSE Len(seq))

\* Mutant: only the first td is taken for the day's name.
cells_of_from_second(tds) == SubSeq(tds, 2, Len(tds))
\* cells = tds[2:]
cells_of(tds) == SubSeq(tds, 3, Len(tds))

\* Lines 61-67: the headers and the cells that are paired.
aligned(headers, tds) ==
  LET cells == cells_of(tds)
      n == IF Len(cells) < Len(headers) THEN Len(cells) ELSE Len(headers)
  IN IF Len(cells) # Len(headers)
       THEN [headers |-> Prefix(headers, n), cells |-> Prefix(cells, n)]
       ELSE [headers |-> headers, cells |-> cells]

\* The two slots appended for the header at index i (from 0) and its cell.
column(header, i, cell) ==
  LET hh == hour_of(header, i)
      st == classify(cell)
  IN <<[interval |-> half1(hh), status |-> st[1]],
       [interval |-> half2(hh), status |-> st[2]]>>

\* Mutant: header i is paired with the cell after its own.
RECURSIVE columns_next_cell(_, _, _)
columns_next_cell(headers, cells, i) ==
  IF i >= Len(headers)
    THEN <<>>
    ELSE column(headers[i + 1], i, IF i + 1 < Len(cells) THEN cells[i + 2] ELSE {})
           \o columns_next_cell(headers, cells, i + 1)
\* The loop of lines 70-111 over the paired headers, from index i (from 0).
RECURSIVE columns(_, _, _)
columns(headers, cells, i) ==
  IF i >= Len(headers)
    THEN <<>>
    ELSE column(headers[i + 1], i, IF i < Len(cells) THEN cells[i + 1] ELSE {})
           \o columns(headers, cells, i + 1)

\* The headers: th[scope='col'], or th div when there are none.
headers_of(doc) == IF doc.headers # <<>> THEN doc.headers ELSE doc.divs

\* Mutant: a table body without rows gives an empty schedule.
raises_without_table(doc) == ~doc.table
\* Whether parse_file raises RuntimeError: no table (line 33), or a table
\* body without rows (line 58).
raises(doc) == ~doc.table \/ doc.rows = <<>>

\* parse_file(path) on a document: the schedule it returns, with the headers
\* and cells it paired, or that it raised.
parse_file(doc) ==
  IF raises(doc)
    THEN [state |-> "raised", value |-> <<>>, headers |-> <<>>, cells |-> <<>>]
    ELSE LET tds == IF doc.rows = <<>> THEN <<>> ELSE selected_row(doc.rows).tds
             al == aligned(headers_of(doc), tds)
         IN [state |-> "returned",
             value |-> columns(al.headers, al.cells, 0),
             headers |-> al.headers,
             cells |-> al.cells]

\* The documents parse_file is given.
HeaderTexts == {<<"0", "0", "-", "0", "1">>, <<"2", "3", "-", "2", "4">>, <<>>}
CellKinds == {{}, {cell_scheduled}}
HeaderLists == UNION {[1..n -> HeaderTexts] : n \in 0..MaxCols}
TdLists == UNION {[1..n -> CellKinds] : n \in 0..MaxTds}
\* The table body: no row, one row or two rows.  Two rows give every case
\* of the selection: the first marked, only the second marked, none marked.
RowLists == UNION {[1..n -> [current : BOOLEAN, tds : TdLists]] : n \in {0, 1, 2}}
NoTable == [table |-> FALSE, headers |-> <<>>, divs |-> <<>>, rows |-> <<>>]
DivLists == {<<>>, <<<<"0", "0", "-", "0", "1">>>>}
Document(h, d, r) == [table |-> TRUE, headers |-> h, divs |-> d, rows |-> r]

\* A document is at hand, parse_file has not been called.  (The th div
\* headers matter only when there are no th[scope='col'] headers.)
InitParse ==
  /\ ServiceInit
  /\ CacheAtRest
  /\ BotAtRest
  /\ FileAtRest
  /\ \/ arg = NoTable
     \/ \E h \in HeaderLists : \E d \in DivLists : \E r \in RowLists :
          /\ h # <<>> => d = <<>>
          /\ arg = Document(h, d, r)
  /\ res = NoResult

\* schedule = parse_file(path)
Parse ==
  /\ res.state = "none"
  /\ res' = parse_file(arg)
  /\ arg' = arg

NextParse ==
  \/ Parse /\ ServiceRests /\ CacheRests /\ BotRests /\ FileRests

SpecParse == InitParse /\ [][NextParse]_vars

\* ================================================================== claims
Jobs == 1..Len(tasks)

StatusSteps ==
  {<<"pending", "running">>, <<"running", "completed">>, <<"running", "failed">>}

\* Worker w is working on job j.
Holds(w, j) == wk[w].tid = j /\ wk[w].pc \in {"thread", "sleep", "callback"}

\* C1: in every step, under any interleaving of submit_task, the workers and
\* stop(), a job's status stays what it was or moves along pending -> running,
\* running -> completed or running -> failed; a new job starts pending.
C1_StatusPath ==
  [][/\ Len(tasks') >= Len(tasks)
     /\ \A j \in 1..Len(tasks') :
          IF j <= Len(tasks)
            THEN \/ tasks'[j].status = tasks[j].status
                 \/ <<tasks[j].status, tasks'[j].status>> \in StatusSteps
            ELSE tasks'[j].status = "pending"]_vars

\* C1 witness: after stop() returned, one job is COMPLETED, one FAILED and one
\* was left RUNNING.
C1_Witness ==
  /\ svc = "stopped"
  /\ \E a, b, c \in Jobs :
       /\ tasks[a].status = "completed"
       /\ tasks[b].status = "failed"
       /\ tasks[c].status = "running"

\* C2: whenever the service is started and never stopped, all jobs submitted
\* so far eventually are COMPLETED or FAILED (weak fairness of the workers).
\* Jobs are never removed and an ended job stays ended, so this is the
\* eventual end of each of the N jobs submitted, for every N <= MaxJobs.
C2_AllJobsEnd ==
  (svc = "started") ~> (\A j \in Jobs : Terminal(tasks[j].status))

\* C2 witness: more jobs than workers were submitted and all have ended, one
\* of them FAILED.
C2_Witness ==
  /\ Len(tasks) > NumWorkers
  /\ \A j \in Jobs : Terminal(tasks[j].status)
  /\ \E j \in Jobs : tasks[j].status = "failed"

\* C3: a callback is invoked at most once; the callback of a job submitted
\* with one has been invoked exactly when the job is COMPLETED or FAILED, and
\* it was handed the job in that final status; a job submitted without a
\* callback is never called back and get_task_status returns it in the status
\* its worker left it with.
C3_CallbackOnce ==
  \A j \in Jobs :
    /\ obs[j].cbCalls <= 1
    /\ obs[j].hasCb => (obs[j].cbCalls = 1 <=> Terminal(tasks[j].status))
    /\ obs[j].cbCalls = 1 => obs[j].cbSeen = tasks[j].status
    /\ ~obs[j].hasCb => obs[j].cbCalls = 0
    /\ obs[j].final # "none" => get_task_status(j).status = obs[j].final

\* C3 witness: a FAILED job whose callback was invoked once, and an ended job
\* that was submitted without callback.
C3_Witness ==
  /\ \E j \in Jobs :
       obs[j].hasCb /\ obs[j].cbCalls = 1 /\ tasks[j].status = "failed"
  /\ \E j \in Jobs : ~obs[j].hasCb /\ Terminal(get_task_status(j).status)

\* An attempt of job j is under way.
InAttempt(j) == \E w \in Workers : wk[w].tid = j /\ wk[w].th = "run"

\* C4: at most max_attempts attempts per job, one at a time (an attempt starts
\* only when all earlier ones have returned; the one attempt that has not
\* returned is under way, or was abandoned by stop()), none after a successful
\* one, and a job is FAILED only after max_attempts unsuccessful attempts.
C4_Attempts ==
  \A j \in Jobs :
    LET o == obs[j] IN
    /\ o.starts <= max_attempts
    /\ Len(o.outcomes) <= o.starts /\ o.starts <= Len(o.outcomes) + 1
    /\ (o.starts = Len(o.outcomes) + 1 /\ svc \in {"new", "started"}) => InAttempt(j)
    /\ InAttempt(j) => o.starts = Len(o.outcomes) + 1
    /\ \A i \in 1..Len(o.outcomes) :
         o.outcomes[i] = "true" => i = Len(o.outcomes) /\ o.starts = i
    /\ tasks[j].status = "failed" =>
         /\ Len(o.outcomes) = max_attempts
         /\ \A i \in 1..max_attempts : o.outcomes[i] # "true"
    /\ tasks[j].status = "completed" =>
         o.outcomes[Len(o.outcomes)] = "true"

\* C4 witness: one job FAILED after three attempts of which one raised into
\* _parse_with_retry, another COMPLETED by its first attempt.
C4_Witness ==
  \E a, b \in Jobs :
    /\ tasks[a].status = "failed" /\ obs[a].starts = max_attempts
    /\ Len(obs[a].delays) = 1
    /\ tasks[b].status = "completed" /\ obs[b].starts = 1

\* The collaborator failed: automation.run() returned a falsy value or raised.
CollaboratorFailed(o) == o \in {"false", "raise"}

\* C5 (as claimed): a job whose collaborator failed on attempts 1 and 2 and
\* succeeded on attempt 3 is COMPLETED with the third attempt's result, and
\* exactly two backoff delays were slept.
C5_TwoBackoffs ==
  \A j \in Jobs :
    (/\ Len(obs[j].outcomes) = 3
     /\ CollaboratorFailed(obs[j].outcomes[1])
     /\ CollaboratorFailed(obs[j].outcomes[2])
     /\ obs[j].outcomes[3] = "true")
    => /\ tasks[j].status = "completed"
       /\ tasks[j].result = 3
       /\ Len(obs[j].delays) = 2

\* C6 (as claimed): before every attempt after the first, whichever way the
\* one before it failed, the executor slept 2^attempt (2 after attempt 1, 4
\* after attempt 2); no sleep follows the last attempt.
C6_BackoffBetweenAttempts ==
  \A j \in Jobs :
    /\ \A k \in 1..(obs[j].starts - 1) :
         k <= Len(obs[j].delays) /\ obs[j].delays[k] = 2 ^ k
    /\ Len(obs[j].delays) <= max_attempts - 1

\* C7 (as claimed): a FAILED job carries an error description, the one of
\* its last attempt.
C7_FailedCarriesLastError ==
  \A j \in Jobs :
    tasks[j].status = "failed" =>
      tasks[j].error # None /\ tasks[j].error = Len(obs[j].outcomes)

\* C8: only stop() ends a worker loop; while the service runs, a RUNNING job
\* is in the hands of a worker that is fetching or sleeping for it; and a job
\* whose attempts are exhausted is FAILED, not left RUNNING.
C8_WorkerSurvives ==
  /\ \A w \in Workers : wk[w].pc = "done" => svc \in {"stopping", "stopped"}
  /\ svc = "started" => \A w \in Workers : wk[w].pc # "unborn"
  /\ \A j \in Jobs :
       /\ (svc = "started" /\ tasks[j].status = "running")
            => \E w \in Workers : wk[w].tid = j /\ wk[w].pc \in {"thread", "sleep"}
       /\ (/\ Len(obs[j].outcomes) = max_attempts
           /\ obs[j].outcomes[max_attempts] # "true")
            => tasks[j].status = "failed"

\* C8 witness: job 1 is still in its first attempt with one worker, so the
\* other worker took job 2, whose fetches all failed (FAILED) and whose
\* callback raised, and that same worker is now processing job 3.
C8_Witness ==
  /\ Len(tasks) >= 3
  /\ \E w1, w2 \in Workers :
       /\ w1 # w2
       /\ Holds(w1, 1) /\ obs[1].starts = 1 /\ wk[w1].pc = "thread"
       /\ tasks[2].status = "failed"
       /\ Holds(w2, 3)

\* No item occurs twice in the queue.
NoDuplicates(q) == \A a, b \in 1..Len(q) : q[a] = q[b] => a = b

\* C9: a job is dequeued at most once, it is in the queue exactly while it was
\* never dequeued (PENDING), and no two workers process the same job.
C9_DequeuedOnce ==
  /\ NoDuplicates(queue)
  /\ \A j \in Jobs :
       /\ obs[j].dequeues <= 1
       /\ (\E i \in 1..Len(queue) : queue[i] = j) <=> obs[j].dequeues = 0
       /\ obs[j].dequeues = 0 <=> tasks[j].status = "pending"
  /\ \A w1, w2 \in Workers :
       (w1 # w2 /\ wk[w1].tid # 0) => wk[w1].tid # wk[w2].tid

\* C9 witness: two workers are processing two different jobs while a third
\* job waits in the queue.
C9_Witness ==
  /\ \E w1, w2 \in Workers : w1 # w2 /\ Holds(w1, 1) /\ Holds(w2, 2)
  /\ queue = <<3>>

KeysOf(c) == {c[i].key : i \in 1..Len(c)}

\* The positions of the entries of the cache whose age does not exceed the TTL.
LiveIdx == {i \in 1..Len(cache) : now - cache[i].timestamp <= ttl}

\* ------------------------------------------ claims on the request handler
\* C11: a step that adds a job adds exactly one, PENDING and without result
\* or error, at the end of the job table, appends its identifier to the queue
\* and hands that identifier to the caller; it changes no other job and
\* nothing of the cache (its dict, its clock, its last operation), whatever
\* the cache holds for the request.
C11_SubmitFrame ==
  [][Len(tasks') # Len(tasks) =>
       /\ tasks' = Append(tasks, [status |-> "pending", result |-> None,
                                  error |-> None])
       /\ queue' = Append(queue, Len(tasks) + 1)
       /\ \E r \in 1..Len(req) :
            /\ req[r].task_id = None
            /\ req'[r].task_id = Len(tasks) + 1
            /\ \A q \in 1..Len(req) : q # r => req'[q] = req[q]
       /\ UNCHANGED cachevars]_vars

\* C11 witness: a call submitted its job while the cache held a live entry
\* for its key (stored by another job after the call's lookup), and the job
\* is PENDING in the queue.
C11_Witness ==
  \E r \in 1..Len(req) :
    /\ req[r].pc = "submitted"
    /\ req[r].seen = "live"
    /\ tasks[req[r].task_id].status = "pending"
    /\ \E i \in 1..Len(queue) : queue[i] = req[r].task_id

\* C12: once stop() has cancelled the workers every worker has left its loop,
\* and stop() returns only then; a job that is COMPLETED or FAILED keeps its
\* status, result and error in every later step, stop() included, and
\* get_task_status keeps returning it.
C12_StopKeepsResults ==
  [][/\ svc' \in {"stopping", "stopped"} => \A w \in Workers : wk'[w].pc = "done"
     /\ \A j \in Jobs :
          Terminal(tasks[j].status) =>
            /\ j \in 1..Len(tasks')
            /\ tasks'[j] = tasks[j]
            /\ get_task_status(j)' = tasks[j]]_vars

\* C12 witness: stop() has returned; one job was COMPLETED with a result, one
\* FAILED with an error, and one was being fetched when the workers were
\* cancelled.
C12_Witness ==
  /\ svc = "stopped"
  /\ \A w \in Workers : wk[w].pc = "done"
  /\ \E a, b, c \in Jobs :
       /\ get_task_status(a).status = "completed"
       /\ get_task_status(a).result # None
       /\ get_task_status(b).status = "failed"
       /\ get_task_status(b).error # None
       /\ get_task_status(c).status = "running"

\* The calls of process_schedule_request that have submitted a job.
Submitted == {r \in 1..Len(req) : req[r].pc = "submitted"}

\* C13: a call whose lookup finds a live entry for its key is answered with
\* that entry's schedule and leaves the queue and the job table as they are;
\* a call that finds none goes on to submit.  A call answered from the cache
\* never has a job; a call that went on has at most one job, its own, and
\* there are no other jobs.  (Sending the progress message is taken to
\* succeed.)
C13_HitOrOneJob ==
  [][/\ Len(req') > Len(req) =>
          LET n == Len(req')
              k == KeyOf(req'[n].rq)
          IN IF \E i \in LiveIdx : cache[i].key = k
               THEN /\ req'[n].pc = "answered"
                    /\ req'[n].cached = cache[IndexOf(cache, k)].schedule
                    /\ tasks' = tasks
                    /\ queue' = queue
               ELSE /\ req'[n].pc = "progress"
                    /\ req'[n].cached = None
     /\ \A r \in 1..Len(req') :
          /\ req'[r].pc = "answered" => req'[r].task_id = None
          /\ req'[r].pc = "progress" => req'[r].task_id = None
          /\ req'[r].pc = "submitted" =>
               /\ req'[r].task_id \in 1..Len(tasks')
               /\ \A q \in 1..Len(req') :
                    req'[q].task_id = req'[r].task_id => q = r
     /\ Len(tasks') = Cardinality({r \in 1..Len(req') : req'[r].pc = "submitted"})]_vars

\* C13 witness: one call missed and its job stored a schedule; a later call
\* for the same key was answered with that schedule, and there is one job.
C13_Witness ==
  \E r1, r2 \in 1..Len(req) :
    /\ KeyOf(req[r1].rq) = KeyOf(req[r2].rq)
    /\ req[r1].pc = "submitted"
    /\ tasks[req[r1].task_id].status = "completed"
    /\ req[r2].pc = "answered"
    /\ req[r2].cached \in Schedules
    /\ Len(tasks) = 1

\* C14: nothing but a live cache entry keeps a call from submitting: a call
\* whose lookup finds no live entry goes on to submit even when calls or jobs
\* for the same key are under way, and every call that goes on gets a new job
\* of its own.
C14_NoDeduplication ==
  [][/\ Len(req') > Len(req) =>
          LET n == Len(req') IN
          (~\E i \in LiveIdx : cache[i].key = KeyOf(req'[n].rq))
            => req'[n].pc = "progress"
     /\ \A r \in 1..Len(req) :
          (req[r].pc = "progress" /\ req'[r].pc # "progress") =>
            /\ Len(tasks') = Len(tasks) + 1
            /\ req'[r].task_id = Len(tasks')
            /\ tasks'[Len(tasks')].status = "pending"]_vars

\* C14 witness: two calls for the same key have each submitted a job and
\* neither job has ended.
C14_Witness ==
  \E r1, r2 \in Submitted :
    /\ r1 # r2
    /\ KeyOf(req[r1].rq) = KeyOf(req[r2].rq)
    /\ req[r1].task_id # req[r2].task_id
    /\ ~Terminal(tasks[req[r1].task_id].status)
    /\ ~Terminal(tasks[req[r2].task_id].status)

\* C15: a get that immediately follows a set with the same key (no other
\* operation and no tick in between) returns the schedule that was set, with
\* either cache class and whatever the cache held before.
C15_SetThenGet ==
  [][(op.name = "set" /\ op'.name = "get" /\ KeyOf(op'.rq) = KeyOf(op.rq))
       => op'.ret = op.schedule]_vars

\* C15 witness: a get right after a set of its key returned a schedule from a
\* cache filled to max_size.
C15_Witness ==
  /\ op.name = "get"
  /\ op.follows
  /\ op.ret \in Schedules
  /\ Len(cache) = max_size

\* C16: get returns None and leaves the dict alone when the key is not in it;
\* returns None and removes the entry, and only that entry, when the entry's
\* age exceeds the TTL; otherwise returns the entry's schedule and the entry
\* stays, with its schedule and creation timestamp.
C16_GetExpiry ==
  [][op'.name = "get" =>
       LET k == KeyOf(op'.rq)
           i == IndexOf(cache, k)
       IN IF i = 0
            THEN op'.ret = None /\ cache' = cache
            ELSE IF now - cache[i].timestamp > ttl
                   THEN /\ op'.ret = None
                        /\ k \notin KeysOf(cache')
                        /\ KeysOf(cache') = KeysOf(cache) \ {k}
                   ELSE /\ op'.ret = cache[i].schedule
                        /\ KeysOf(cache') = KeysOf(cache)
                        /\ cache'[IndexOf(cache', k)].schedule = cache[i].schedule
                        /\ cache'[IndexOf(cache', k)].timestamp = cache[i].timestamp]_vars

\* C16 witness: a get found its entry expired, returned None and removed it,
\* while another entry stayed.
C16_Witness ==
  /\ op.name = "get"
  /\ op.was = "expired"
  /\ op.ret = None
  /\ KeyOf(op.rq) \notin KeysOf(cache)
  /\ cache # <<>>

\* C17: a set that finds max_size or more entries of age within the TTL leaves
\* all of them but one, an entry of minimal creation timestamp among them,
\* plus its own key, whatever the last-access timestamps are; a set that finds
\* fewer leaves them all.  The entries it leaves under other keys are as they
\* were, and no expired entry is left.
C17_EvictsOldestCreated ==
  [][op'.name = "set" =>
       LET k == KeyOf(op'.rq)
           LiveKeys == {cache[i].key : i \in LiveIdx}
       IN /\ IF Cardinality(LiveIdx) >= max_size
               THEN \E i \in LiveIdx :
                      /\ \A j \in LiveIdx : cache[i].timestamp <= cache[j].timestamp
                      /\ KeysOf(cache') = (LiveKeys \ {cache[i].key}) \cup {k}
               ELSE KeysOf(cache') = LiveKeys \cup {k}
          /\ \A m \in 1..Len(cache') :
               cache'[m].key # k => \E j \in LiveIdx : cache[j] = cache'[m]]_vars

\* C17 witness: a set on a full persistent cache evicted the entry created
\* first although it had been read later than an entry that stayed.
C17_Witness ==
  /\ kind = "persistent"
  /\ op.name = "set"
  /\ op.full
  /\ op.hot
  /\ op.was = "absent"
  /\ Len(cache) = max_size

\* C18: when a set has returned, the dict holds at most max_size entries.
C18_CapacityAfterSet == op.name = "set" => Len(cache) <= max_size

\* C18 witness: a set of a new key into a full cache has returned and the
\* cache is full again.
C18_Witness ==
  /\ op.name = "set"
  /\ op.full
  /\ op.was = "absent"
  /\ Len(cache) = max_size
  /\ now > 0

\* C19: no operation of the persistent cache raises; a cache constructed over
\* a missing, unreadable or corrupt file is empty; after a set whose write
\* failed the dict holds the entry that was set, and after a clear whose write
\* failed the dict is empty.
C19_StoreFailuresSwallowed ==
  /\ ~op.raised
  /\ (op.name = "init" /\ disk.state \in DamagedDisk) => cache = <<>>
  /\ (op.name = "set" /\ op.write # "ok") =>
       /\ KeyOf(op.rq) \in KeysOf(cache)
       /\ cache[IndexOf(cache, KeyOf(op.rq))].schedule = op.schedule
       /\ cache[IndexOf(cache, KeyOf(op.rq))].timestamp = now
  /\ (op.name = "clear" /\ op.write # "ok") => cache = <<>>

\* C19 witness: pickle.dump failed in a set, leaving a corrupt file, and the
\* dict holds the new entry beside an older one.
C19_Witness ==
  /\ op.name = "set"
  /\ op.write = "dump_fails"
  /\ disk.state = "corrupt"
  /\ Len(cache) = 2
  /\ cache[2].key = KeyOf(op.rq)
  /\ cache[1].timestamp < now

\* Normalization of a text field: surrounding whitespace removed, lower case.
LowerChar(ch) == IF ch = "A" THEN "a" ELSE ch
Lower(text) == [i \in 1..Len(text) |-> LowerChar(text[i])]
RECURSIVE StripLeft(_)
StripLeft(text) ==
  IF text # <<>> /\ Head(text) = " " THEN StripLeft(Tail(text)) ELSE text
RECURSIVE StripRight(_)
StripRight(text) ==
  IF text # <<>> /\ text[Len(text)] = " "
    THEN StripRight(SubSeq(text, 1, Len(text) - 1))
    ELSE text
Normalize(text) == Lower(StripRight(StripLeft(text)))

\* Two requests with the same fields after normalization.
SameNormalized(r1, r2) ==
  /\ Normalize(r1.city) = Normalize(r2.city)
  /\ Normalize(r1.street) = Normalize(r2.street)
  /\ Normalize(r1.house) = Normalize(r2.house)
  /\ Normalize(r1.url) = Normalize(r2.url)
  /\ r1.next_day = r2.next_day

\* C20 (as claimed): a get that immediately follows a set under a request
\* with the same normalized fields returns the schedule that was set.
C20_NormalizedSameEntry ==
  [][(op.name = "set" /\ op'.name = "get" /\ SameNormalized(op.rq, op'.rq))
       => op'.ret = op.schedule]_vars

\* ------------------------------------------- claims on the interval extractor
\* The start and end labels of a slot, and the slots a block reaches from
\* its first to its last.
StartOf(slot) == Split(slot.interval, "-")[1]
EndOf(slot) == Split(slot.interval, "-")[2]
FirstSlot(b) == CHOOSE i \in 1..Len(arg) : StartOf(arg[i]) = b[1]
LastSlot(b) == CHOOSE i \in 1..Len(arg) : EndOf(arg[i]) = b[2]
Covered(b) == FirstSlot(b)..LastSlot(b)
OffSlots == {i \in 1..Len(arg) : arg[i].status = "off"}

\* The maximal runs of "off" slots of the argument, as <<first, last>>.
OffRuns ==
  {r \in (1..Len(arg)) \X (1..Len(arg)) :
     /\ r[1] <= r[2]
     /\ \A i \in r[1]..r[2] : i \in OffSlots
     /\ r[1] - 1 \notin OffSlots
     /\ r[2] + 1 \notin OffSlots}

\* C21: the blocks extract_off_intervals returns each start and end at slots
\* of the input, come in the order of the input without overlapping, and
\* together cover exactly the "off" slots.
C21_BlocksCoverOff ==
  res.state = "returned" =>
    LET B == res.value IN
    /\ \A m \in 1..Len(B) :
         /\ \E i \in 1..Len(arg) : StartOf(arg[i]) = B[m][1]
         /\ \E i \in 1..Len(arg) : EndOf(arg[i]) = B[m][2]
         /\ FirstSlot(B[m]) <= LastSlot(B[m])
    /\ \A m, n \in 1..Len(B) : m < n => LastSlot(B[m]) < FirstSlot(B[n])
    /\ UNION {Covered(B[m]) : m \in 1..Len(B)} = OffSlots

\* C21 witness: a schedule with "on", "off" and "unknown" slots gave two
\* blocks, one of them longer than one slot.
C21_Witness ==
  /\ res.state = "returned"
  /\ Len(res.value) = 2
  /\ \E m \in 1..2 : FirstSlot(res.value[m]) < LastSlot(res.value[m])
  /\ \E i \in 1..Len(arg) : arg[i].status = "unknown"

\* C22: extract_off_intervals returns one block per maximal run of "off"
\* slots, in the order of the runs, from the start label of the run's first
\* slot to the end label of its last slot, the run that reaches the end of
\* the list included; between two consecutive blocks lies a slot that is not
\* "off".
C22_OneBlockPerRun ==
  res.state = "returned" =>
    LET B == res.value IN
    /\ Len(B) = Cardinality(OffRuns)
    /\ \A r \in OffRuns :
         \E m \in 1..Len(B) :
           /\ B[m] = <<StartOf(arg[r[1]]), EndOf(arg[r[2]])>>
           /\ m = Cardinality({q \in OffRuns : q[1] <= r[1]})
    /\ \A m \in 1..(Len(B) - 1) :
         \E i \in (LastSlot(B[m]) + 1)..(FirstSlot(B[m + 1]) - 1) : i \notin OffSlots

\* C22 witness: two runs, the second reaching the end of the list, gave two
\* blocks, the second ending at the end label of the last slot.
C22_Witness ==
  /\ res.state = "returned"
  /\ Len(arg) = MaxSlots
  /\ arg[Len(arg)].status = "off"
  /\ Cardinality(OffRuns) = 2
  /\ res.value[2][2] = EndOf(arg[Len(arg)])

\* ------------------------------------------------ claims on the grid parser
\* The td cells of the row parse_file selected and the headers it found.
RowTds == selected_row(arg.rows).tds
Found == headers_of(arg)
Min(a, b) == IF a < b THEN a ELSE b
Max(a, b) == IF a > b THEN a ELSE b

\* C23 as stated: parse_file trims len(cells) - len(headers) leading cells of
\* the row, whatever that difference is, and then truncates both lists to
\* the shorter length.
C23_TrimsDifference ==
  res.state = "returned" =>
    LET d == Max(Len(RowTds) - Len(Found), 0)
        trimmed == SubSeq(RowTds, d + 1, Len(RowTds))
        n == Min(Len(trimmed), Len(Found))
    IN /\ res.cells = Prefix(trimmed, n)
       /\ res.headers = Prefix(Found, n)

\* C23 as amended: parse_file drops exactly the first 2 cells of the row,
\* whatever len(cells) - len(headers) is, before pairing, and then truncates
\* both lists to the shorter length.
C23_DropsTwoThenTruncates ==
  res.state = "returned" =>
    LET n == Min(Max(Len(RowTds) - 2, 0), Len(Found))
    IN /\ Len(res.cells) = n
       /\ Len(res.headers) = n
       /\ \A i \in 1..n : res.cells[i] = RowTds[i + 2] /\ res.headers[i] = Found[i]

\* C23 witness: a row with three cells more than there are headers, the
\* third unlike the fourth: the third cell is paired and the last one is
\* cut off.
C23_Witness ==
  /\ res.state = "returned"
  /\ Len(Found) = 1
  /\ Len(RowTds) = 4
  /\ RowTds[3] # RowTds[4]
  /\ res.cells = <<RowTds[3]>>

\* The status parse_file gives both halves of a cell without class names
\* and of a cell of class cell-scheduled.
StatusOfKind(cell) == IF cell = {} THEN "unknown" ELSE "off"

\* C24: for N headers and a selected row of N+2 cells parse_file keeps all N
\* headers, drops the first 2 cells whatever they are, and gives the two
\* slots of column i the status of row cell i+2.
C24_DropsFirstTwo ==
  (res.state = "returned" /\ Len(RowTds) = Len(Found) + 2) =>
    /\ res.headers = Found
    /\ Len(res.cells) = Len(Found)
    /\ Len(res.value) = 2 * Len(Found)
    /\ \A i \in 0..(Len(Found) - 1) :
         /\ res.cells[i + 1] = RowTds[i + 3]
         /\ res.value[2 * i + 1].status = StatusOfKind(RowTds[i + 3])
         /\ res.value[2 * i + 2].status = StatusOfKind(RowTds[i + 3])

\* C24 witness: two headers and a row of four cells whose first two cells
\* carry a class name and whose third and fourth differ.
C24_Witness ==
  /\ res.state = "returned"
  /\ Len(Found) = 2
  /\ Len(RowTds) = 4
  /\ RowTds[1] # {}
  /\ RowTds[2] # {}
  /\ RowTds[3] # RowTds[4]
  /\ Len(res.value) = 4

\* C25: for each paired column whose header starts with a number HH,
\* parse_file emits, in column order, the slots HH:00-HH:30 and
\* HH:30-(HH+1):00.
C25_HourIsLeadingNumber ==
  res.state = "returned" =>
    /\ Len(res.value) = 2 * Len(res.headers)
    /\ \A i \in 1..Len(res.headers) :
         LET lead == Split(res.headers[i], "-")[1] IN
         IsNumber(lead) =>
           /\ res.value[2 * i - 1].interval = half1(IntOf(lead))
           /\ res.value[2 * i].interval = half2(IntOf(lead))

\* C26 as stated: parse_file raises only when the document has no outage
\* table.
C26_RaisesOnlyWithoutTable ==
  res.state = "raised" => ~arg.table

\* C26 as amended: parse_file raises only when no outage table is found or
\* the table body has no rows; on every other document (no headers, no row
\* marked current-day, cells without known class names, more or fewer cells
\* than headers) it returns two slots for every paired column.
C26_RaisesOnlyWithoutRows ==
  res.state # "none" =>
    /\ res.state = "raised" <=> (~arg.table \/ Len(arg.rows) = 0)
    /\ res.state = "returned" => Len(res.value) = 2 * Len(res.headers)

\* C26 witness: a table without th[scope='col'] headers, whose rows are not
\* marked current-day and whose last row has more cells than the th div
\* headers cover, was parsed into two slots.
C26_Witness ==
  /\ res.state = "returned"
  /\ arg.headers = <<>>
  /\ Len(arg.divs) = 1
  /\ \A k \in 1..Len(arg.rows) : ~arg.rows[k].current
  /\ Len(arg.rows) = 2
  /\ Len(RowTds) = 4
  /\ Len(res.value) = 2

\* The class names the parser names.
Recognised == ON_CLASSES \cup OFF_CLASSES \cup {FIRST_HALF, SECOND_HALF}

\* What parse_file emits for the cells that carry recognised class names of
\* one kind only.
TableHolds ==
  /\ (arg \cap Recognised # {} /\ arg \cap Recognised \subseteq ON_CLASSES)
       => res.value = <<"on", "on">>
  /\ (arg \cap Recognised # {} /\ arg \cap Recognised \subseteq OFF_CLASSES)
       => res.value = <<"off", "off">>
  /\ arg \cap Recognised = {FIRST_HALF} => res.value = <<"off", "on">>
  /\ arg \cap Recognised = {SECOND_HALF} => res.value = <<"on", "off">>

\* C27 as stated: the statuses come from the fixed table, and a cell that
\* carries none of the recognised class names (or no class name) yields
\* (unknown, unknown).
C27_FixedTable ==
  res.state # "none" =>
    /\ res.state = "returned"
    /\ TableHolds
    /\ arg \cap Recognised = {} => res.value = <<"unknown", "unknown">>

\* C27 as amended: the statuses come from the fixed table; a cell that
\* carries none of the recognised class names yields (on, on) when one of its
\* class names contains "non-sched", otherwise (off, off) when one contains
\* "schedul", otherwise (and with no class name) (unknown, unknown); it
\* never raises.
C27_TableThenSubstrings ==
  res.state # "none" =>
    /\ res.state = "returned"
    /\ TableHolds
    /\ arg \cap Recognised = {} =>
         res.value =
           IF \E c \in arg : Contains(c, non_sched) THEN <<"on", "on">>
           ELSE IF \E c \in arg : Contains(c, schedul) THEN <<"off", "off">>
           ELSE <<"unknown", "unknown">>

\* C27 witness: a cell whose only class names are not recognised, one of
\* them holding "schedul", was classified (off, off).
C27_Witness ==
  /\ res.state = "returned"
  /\ arg # {}
  /\ arg \cap Recognised = {}
  /\ res.value = <<"off", "off">>

\* -------------------------------------------- claims on the stored schedule
\* An entry of the cache after the step that is not an entry before it.
Stored(i) == \A k \in 1..Len(cache) : cache[k] # cache'[i]

\* C28: the schedule stored under a job's key in the step that completes the
\* job is the schedule that job's own fetch and parse produced.
C28_StoresOwnSchedule ==
  [][\A j \in Jobs :
       (tasks[j].status = "running" /\ tasks'[j].status = "completed") =>
         \A i \in 1..Len(cache') :
           (Stored(i) /\ cache'[i].key = KeyOf(req[RequestOf(j)].rq))
             => cache'[i].schedule = made[j]]_vars

\* C29: a step that creates or rewrites a cache entry is the step in which a
\* job of the entry's key becomes COMPLETED; the step in which a job becomes
\* FAILED leaves the cache and its clock as they are, so that a get for any
\* key returns what it returned before.
C29_StoredOnlyOnCompleted ==
  [][/\ \A i \in 1..Len(cache') :
          Stored(i) =>
            \E j \in Jobs :
              /\ tasks[j].status = "running"
              /\ tasks'[j].status = "completed"
              /\ cache'[i].key = KeyOf(req[RequestOf(j)].rq)
     /\ \A j \in Jobs :
          (tasks[j].status # "failed" /\ tasks'[j].status = "failed") =>
            /\ cache' = cache
            /\ now' = now
            /\ \A rq \in BotRequests :
                 cache_get(cache', rq, now').ret = cache_get(cache, rq, now).ret]_vars

\* C29 witness: two calls for one key both missed; the job of one is FAILED
\* after three failed attempts, the job of the other is COMPLETED, and the
\* cache holds the live entry the completed job stored; another key has no
\* entry.
C29_Witness ==
  \E r1, r2 \in Submitted :
    /\ KeyOf(req[r1].rq) = KeyOf(req[r2].rq)
    /\ tasks[req[r1].task_id].status = "failed"
    /\ Len(obs[req[r1].task_id].outcomes) = max_attempts
    /\ tasks[req[r2].task_id].status = "completed"
    /\ KeyState(cache, KeyOf(req[r1].rq), now) = "live"
    /\ Len(cache) = 1

\* ----------------------------------------------------- claims on shutdown
\* C30: from the step in which stop() cancels the workers on, no job changes
\* its status or its result and no callback is invoked: a job that was
\* RUNNING stays RUNNING, a job that was PENDING stays PENDING, also when the
\* thread of the abandoned attempt ends later.
C30_AbandonedAtStop ==
  [][svc' \in {"stopping", "stopped"} =>
       \A j \in Jobs :
         /\ tasks'[j].status = tasks[j].status
         /\ tasks'[j].result = tasks[j].result
         /\ obs'[j].cbCalls = obs[j].cbCalls
         /\ obs'[j].dequeues = obs[j].dequeues]_vars

\* C30 witness: stop() has returned and the threads of the cancelled
\* attempts have ended; a job submitted with a callback, in its second
\* attempt or later when the workers were cancelled, is RUNNING with its
\* callback never invoked, and another job is PENDING in the queue.
C30_Witness ==
  /\ svc = "stopped"
  /\ \A w \in Workers : wk[w].th = "none"
  /\ \E j, k \in Jobs :
       /\ tasks[j].status = "running"
       /\ obs[j].hasCb
       /\ obs[j].cbCalls = 0
       /\ obs[j].starts >= 2
       /\ j \in callbacks
       /\ tasks[k].status = "pending"
       /\ \E i \in 1..Len(queue) : queue[i] = k

\* ------------------------------------------------ more claims on the cache
\* C31 (as claimed): a set under a key whose entry is in the dict and not
\* expired leaves that key with the schedule that was set and the time of the
\* set as its creation timestamp, and every other entry that was not expired
\* stays, also when the dict held max_size entries.
C31_OverwriteKeepsOthers ==
  [][(op'.name = "set" /\ KeyState(cache, KeyOf(op'.rq), now) = "live") =>
       LET k == KeyOf(op'.rq) IN
       /\ k \in KeysOf(cache')
       /\ cache'[IndexOf(cache', k)].schedule = op'.schedule
       /\ cache'[IndexOf(cache', k)].timestamp = now
       /\ \A i \in LiveIdx : cache[i].key \in KeysOf(cache')]_vars

\* C32: in the persistent cache a get adds 1 to hits and nothing to misses
\* when it returns a schedule, and 1 to misses and nothing to hits when it
\* returns None, which it does exactly when the key is absent or its entry
\* expired; set and get_stats leave both counters; a hit changes nothing in
\* the dict but the last-access timestamp of the entry read, so the entry's
\* schedule, creation timestamp and time of expiry are as before.
C32_CountersAndHits ==
  [][/\ op'.name = "get" =>
          LET k == KeyOf(op'.rq)
              i == IndexOf(cache, k)
          IN /\ (op'.ret # None) <=> (KeyState(cache, k, now) = "live")
             /\ IF op'.ret # None
                  THEN /\ hits' = hits + 1
                       /\ misses' = misses
                       /\ op'.ret = cache[i].schedule
                       /\ cache' = [cache EXCEPT ![i].last_accessed = now]
                       /\ cache'[i].timestamp = cache[i].timestamp
                       /\ \A t \in 0..(MaxClock + 1) :
                            is_expired(cache'[i], t) = is_expired(cache[i], t)
                  ELSE /\ hits' = hits
                       /\ misses' = misses + 1
     /\ op'.name \in {"set", "stats"} => (hits' = hits /\ misses' = misses)]_vars

\* C32 witness: after one miss, a get has hit an entry created before the
\* current time and set its last-access timestamp past the creation timestamp.
C32_Witness ==
  /\ kind = "persistent"
  /\ op.name = "get"
  /\ op.was = "live"
  /\ op.ret \in Schedules
  /\ hits = 1
  /\ misses = 1
  /\ LET i == IndexOf(cache, KeyOf(op.rq)) IN
       /\ cache[i].timestamp < now
       /\ cache[i].last_accessed = now

\* The entries of a dict.
EntriesOf(c) == {c[i] : i \in 1..Len(c)}

\* C33: a set whose write of the file goes through leaves in the file the
\* whole dict as it is after the set, the entry just set included, and both
\* counters; and a cache constructed over a file that a write left holds
\* exactly the entries of the file whose age at the time of loading does not
\* exceed the TTL, each with its schedule and creation timestamp, and the hits
\* and misses of the file.
C33_RoundTrip ==
  [][/\ (op'.name = "set" /\ op'.write = "ok") =>
          /\ disk'.state = "ok"
          /\ disk'.cache = cache'
          /\ disk'.hits = hits'
          /\ disk'.misses = misses'
          /\ KeyOf(op'.rq) \in KeysOf(disk'.cache)
     /\ (op'.name = "init" /\ disk.state = "ok") =>
          /\ ~op'.raised
          /\ EntriesOf(cache') =
               {e \in EntriesOf(disk.cache) : now - e.timestamp <= ttl}
          /\ Len(cache') = Cardinality(EntriesOf(cache'))
          /\ hits' = disk.hits
          /\ misses' = disk.misses]_vars

\* C33 witness: a cache has been constructed over a file written by a set
\* that holds two entries and one miss; the older entry had expired and only
\* the younger one was loaded.
C33_Witness ==
  /\ op.name = "init"
  /\ disk.state = "ok"
  /\ Len(disk.cache) = 2
  /\ Len(cache) = 1
  /\ cache[1] = disk.cache[2]
  /\ disk.misses = 1
  /\ misses = 1

\* ------------------------------------- more claims on the interval extractor
\* The label "00:00".
Midnight == <<"0", "0", ":", "0", "0">>

\* C34: extract_off_intervals returns the empty list for a schedule without
\* an "off" slot, the empty schedule included, and for a schedule of one or
\* more slots that are all "off" the single block from the start label of the
\* first slot to the end label of the last; for the 48 half hours of a day
\* that is the block from "00:00" to the "00:00" that ends the 23:30 slot.
C34_NoOffAndAllOff ==
  res.state # "none" =>
    /\ res.state = "returned"
    /\ OffSlots = {} => res.value = <<>>
    /\ (arg # <<>> /\ OffSlots = 1..Len(arg)) =>
         res.value = << <<StartOf(arg[1]), EndOf(arg[Len(arg)])>> >>
    /\ arg = FullDay("off") => res.value = << <<Midnight, Midnight>> >>

\* C34 witness: the function has returned one block for the 48 "off" slots of
\* a day.
C34_Witness ==
  /\ res.state = "returned"
  /\ Len(arg) = 48
  /\ OffSlots = 1..48
  /\ Len(res.value) = 1

\* The schedule with every status other than "off" replaced by "on".
AsOn(schedule) ==
  [i \in 1..Len(schedule) |->
     [schedule[i] EXCEPT !.status = IF @ = "off" THEN "off" ELSE "on"]]

\* C35: extract_off_intervals returns for a schedule what it returns for the
\* same schedule with every status other than "off" replaced by "on"; no
\* block reaches over a slot that is not "off"; and where an "unknown" slot
\* lies between two "off" slots, one block ends with the slot before it and
\* the next block starts with the slot after it.
C35_UnknownLikeOn ==
  res.state # "none" =>
    LET B == res.value IN
    /\ res = extract_off_intervals(AsOn(arg))
    /\ \A m \in 1..Len(B) : \A i \in Covered(B[m]) : arg[i].status = "off"
    /\ \A i \in 2..(Len(arg) - 1) :
         (arg[i].status = "unknown" /\ arg[i - 1].status = "off"
            /\ arg[i + 1].status = "off") =>
           \E m \in 1..(Len(B) - 1) :
             /\ B[m][2] = EndOf(arg[i - 1])
             /\ B[m + 1][1] = StartOf(arg[i + 1])

\* C35 witness: "off", "unknown", "off" gave two blocks of one slot each.
C35_Witness ==
  /\ res.state = "returned"
  /\ Len(arg) = 3
  /\ arg[1].status = "off"
  /\ arg[2].status = "unknown"
  /\ arg[3].status = "off"
  /\ res.value = << <<StartOf(arg[1]), EndOf(arg[1])>>,
                    <<StartOf(arg[3]), EndOf(arg[3])>> >>

\* ------------------------------------------------ more claims on the service
\* C36: in what get_stats returns, total_tasks is the sum of queue_size,
\* active_tasks, completed and failed; queue_size is the number of PENDING
\* jobs; and, start() having been called at most once and stop() not yet,
\* active_tasks is at most workers.
C36_StatsConsistent ==
  LET s == get_stats IN
  /\ s.total_tasks = s.queue_size + s.active_tasks + s.completed + s.failed
  /\ s.queue_size = Cardinality(WithStatus("pending"))
  /\ svc \in {"new", "started"} => s.active_tasks <= s.workers

\* C36 witness: the workers run, every worker has a job RUNNING and another
\* job waits in the queue.
C36_Witness ==
  /\ svc = "started"
  /\ get_stats.active_tasks = get_stats.workers
  /\ get_stats.queue_size = 1
  /\ get_stats.total_tasks = 3

\* C37: a job has a result exactly when its status is COMPLETED: the result of
\* a PENDING, RUNNING or FAILED job is None, that of a COMPLETED job is the
\* truthy value its last attempt returned.
C37_ResultIffCompleted ==
  \A j \in Jobs :
    /\ (tasks[j].result # None) <=> (tasks[j].status = "completed")
    /\ tasks[j].status = "completed" =>
         /\ obs[j].outcomes # <<>>
         /\ obs[j].outcomes[Len(obs[j].outcomes)] = "true"
         /\ tasks[j].result = Len(obs[j].outcomes)

\* C37 witness: one job is COMPLETED with the result of its attempt, one
\* whose attempts all failed is FAILED and one is RUNNING, both without
\* result.
C37_Witness ==
  \E a, b, c \in Jobs :
    /\ tasks[a].status = "completed"
    /\ tasks[a].result # None
    /\ tasks[b].status = "failed"
    /\ Len(obs[b].outcomes) = max_attempts
    /\ tasks[b].result = None
    /\ tasks[c].status = "running"
    /\ tasks[c].result = None

\* C38 (as claimed): self.callbacks holds a job only while its callback has
\* not been invoked or is being awaited; once the callback has returned or
\* raised the job is no longer in the table, so the table is empty when every
\* job submitted with a callback has been called back.
C38_CallbacksOnlyUncalled ==
  \A j \in callbacks :
    \/ obs[j].cbCalls = 0
    \/ \E w \in Workers : wk[w].pc = "callback" /\ wk[w].tid = j

\* ------------------------------------------------------ claims on the keys
\* C39 (as claimed): a set under one request tuple neither creates nor
\* changes what a get under a different tuple returns: the entry a different
\* tuple addresses after the set, if there is one, is the entry it addressed
\* before, also when city or street holds a "|".
C39_DistinctTuplesDistinctEntries ==
  [][op'.name = "set" =>
       \A r \in BarRequests :
         (r # op'.rq /\ cache_get(cache', r, now).ret # None) =>
           /\ IndexOf(cache, KeyOf(r)) # 0
           /\ cache'[IndexOf(cache', KeyOf(r))] = cache[IndexOf(cache, KeyOf(r))]]_vars

====
